---- MODULE Spec2Model ----
(***************************************************************************)
(* gxf2bed: GTF/GFF to BED conversion.                                     *)
(*                                                                         *)
(* The module models                                                       *)
(*   - GenePred and GenePred::merge                  (src/src/gxf.rs)      *)
(*   - the sequential keyed fold to_bed              (src/src/utils.rs)    *)
(*   - the rayon fold/reduce to_bed, send_ft, to_exon (src/src/main.rs)    *)
(*   - GxfRecord::parse as far as its outcome goes   (src/src/gxf.rs)      *)
(*   - write_obj and the BED row it renders          (src/src/utils.rs)    *)
(*   - detect_input_kind                             (src/src/detect.rs)   *)
(*   - run / process_reader / render_chunk / write_output                  *)
(*                                                   (src/src/convert.rs)  *)
(*   - the separator chosen by convert and by main                         *)
(*                                  (src/src/utils.rs, src/src/main.rs)    *)
(*   - Attribute::parse                              (src/src/gxf/attr.rs) *)
(*                                                                         *)
(* The specifications share the variables; each leaves the variables of    *)
(* the others at their idle values:                                        *)
(*   SpecEntity  one entity under to_bed record updates and merge calls    *)
(*   SpecMerge   a bounded list of partial GenePreds reduced in any order  *)
(*   SpecAgg     one input stream folded sequentially and by fold/reduce   *)
(*   SpecWrite   to_bed followed by write_obj over the entities of a file  *)
(*   SpecDetect  detect_input_kind over bounded file names                 *)
(*   SpecRun     the chunk pipeline of convert.rs                          *)
(*   SpecSep     separator choice and parsing in convert and in main       *)
(*   SpecAttr    Attribute::parse over bounded attribute columns           *)
(*   SpecPool    the chunk pipeline on a pool of workers, with fairness    *)
(*   SpecFold    the per-record fold next to merge of one-record partials  *)
(*   SpecWrap    to_bed with u64 subtraction, with and without checks      *)
(*   SpecBlocks  partials that carry blocks reduced into the first         *)
(***************************************************************************)
EXTENDS Integers, Sequences, FiniteSets, TLC

VARIABLES
    \* ---- one entity (SpecEntity, SpecMerge)
    entry,      \* the GenePred being built (self of merge, entry of to_bed)
    prevType,   \* record_type of entry before the last operation
    lastOp,     \* the last operation applied to entry
    nOps,       \* number of operations applied to entry
    prev,       \* entry before the last merge (SpecMerge)
    query,      \* the GenePred last merged into entry (SpecMerge)
    parentVals, \* coordinates of the last Parent absorbed (SpecMerge)
    \* ---- reduction of partials (SpecMerge)
    parts,      \* the partial GenePreds of one key, in chunk order
    pend,       \* the partials not merged into entry yet
    \* ---- aggregation of one stream (SpecAgg)
    child,      \* the configured child feature
    lines,      \* the input lines handed to to_bed
    pos,        \* number of lines the sequential fold has consumed
    acc,        \* utils.rs to_bed: key -> GenePred
    seqStatus,  \* "running", "done" or "panic" (utils.rs to_bed)
    pmaps,      \* main.rs to_bed: the splits of the lines and their maps
    parStatus,  \* "idle", "folding", "done", "error" or "panic" (main.rs)
    \* ---- chunk pipeline (SpecRun)
    pc,         \* position of run()
    path,       \* the file name config.input, split at its dots
    chunkSize,  \* config.chunks
    stream,     \* the reader's results, one per record of the input
    kind,       \* the InputKind detect_input_kind returned
    poolOk,     \* whether the thread pool was built
    inputRead,  \* whether the reader has been opened
    chunkIn,    \* the chunks par_chunks hands out, by position idx + 1
    rendered,   \* per chunk: "pending", "ok" or "err" of render_chunk
    outputs,    \* the results collected from the workers
    mergedOut,  \* the vector process_reader returns
    wrote,      \* the chunk indexes write_output has written, in order
    file,       \* the output file: created flag and bytes written
    runErr,     \* the error run() returned, or "none"
    \* ---- rendering of the aggregated entities (SpecWrite)
    wStatus,    \* "start", "parsed", "nofile", "writing", "done", "exit", "panic"
    wdata,      \* the map to_bed returned to convert
    wleft,      \* keys write_obj has not visited yet
    wlast,      \* the key write_obj visited last
    rows,       \* the rows handed to the writer, in order
    skips,      \* write_obj's count of entities without exons
    \* ---- choice of the separator (SpecSep)
    prog,       \* "convert" (utils.rs) or "main" (main.rs)
    sStatus,    \* "start", "chosen", "done" or "panic"
    sepBy,      \* the separator byte handed to to_bed
    sOut,       \* the map to_bed returned
    \* ---- Attribute::parse on one attribute column (SpecAttr)
    aFields,    \* the fields the attribute column was written from
    aLine,      \* the attribute column, character by character
    aKey,       \* the target key
    aSep,       \* SEP
    aStatus,    \* "start", "Ok" or "Err"
    aOut,       \* attr.feature() of the Attribute returned
    \* ---- workers of the thread pool (SpecPool)
    threads,    \* config.threads
    busy,       \* the chunks a worker is rendering
    \* ---- per-record update against merge of one-record partials (SpecFold)
    fRecs,      \* the records of one key applied so far
    fFold,      \* the entity to_bed built from them, record by record
    fMerge      \* the entity merge built from their one-record partials

entityVars == <<entry, prevType, lastOp, nOps, prev, query, parentVals>>
mergeVars  == <<parts, pend>>
aggVars    == <<child, lines, pos, acc, seqStatus, pmaps, parStatus>>
runVars    == <<pc, path, chunkSize, stream, kind, poolOk, inputRead, chunkIn,
                rendered, outputs, mergedOut, wrote, file, runErr>>
writeVars  == <<wStatus, wdata, wleft, wlast, rows, skips>>
sepVars == <<prog, sStatus, sepBy, sOut>>
attrVars == <<aFields, aLine, aKey, aSep, aStatus, aOut>>
poolVars == <<threads, busy>>
foldVars == <<fRecs, fFold, fMerge>>
vars       == <<entityVars, mergeVars, aggVars, runVars, writeVars,
               sepVars,
               attrVars,
               poolVars,
               foldVars>>

----------------------------------------------------------------------------
(* Bounds *)

\* largest 0-based start of a coordinate; ends range up to MaxCoord + 1
MaxCoord == 2
\* number of partial GenePreds reduced in SpecMerge
MaxParts == 2
\* number of operations applied to one entity in SpecEntity
MaxOps == 2
\* number of records the reader hands out in SpecRun
MaxRecords == 4
\* largest config.chunks in SpecRun
MaxChunkSize == 2
\* number of input lines in SpecAgg
MaxLines == 3
\* number of input lines in SpecWrite
MaxWriteLines == 3
\* number of extensions of a file name in SpecDetect
MaxExts == 2
\* number of input lines in SpecSep
MaxSepLines == 2
\* number of fields of an attribute column in SpecAttr
MaxFields == 2
\* largest config.threads in SpecPool
MaxThreads == 2
\* number of records the reader hands out in SpecPool
MaxPoolRecords == 3
\* stands for 2^64, where u64 arithmetic wraps; every coordinate is below it
WrapAt == 32

----------------------------------------------------------------------------
(* Small helpers *)

Min(a, b) == IF a < b THEN a ELSE b
Max(a, b) == IF a > b THEN a ELSE b

----------------------------------------------------------------------------
(* BTreeSet<(u64, u64)>: a strictly ascending sequence of pairs, ordered   *)
(* lexicographically as Rust orders tuples.                                *)

PairLess(a, b) == a[1] < b[1] \/ (a[1] = b[1] /\ a[2] < b[2])

BTreeInsertAppend(set, p) == Append(set, p)

BTreeInsert(set, p) ==
    IF \E i \in DOMAIN set : set[i] = p
    THEN set
    ELSE LET k == Cardinality({i \in DOMAIN set : PairLess(set[i], p)})
         IN  SubSeq(set, 1, k) \o <<p>> \o SubSeq(set, k + 1, Len(set))

RECURSIVE BTreeExtend(_, _)
BTreeExtend(set, items) ==
    IF items = <<>> THEN set
    ELSE BTreeExtend(BTreeInsert(set, Head(items)), Tail(items))

SeqToSet(s) == {s[i] : i \in DOMAIN s}

----------------------------------------------------------------------------
(* gxf.rs: Strand, RecordType, GenePred *)

Strands     == {"Forward", "Reverse", "Unknown"}
RecordTypes == {"Parent", "Child", "Unknown"}

NoBlocks       == [some |-> FALSE, set |-> <<>>]
SomeBlocks(s)  == [some |-> TRUE, set |-> s]

GenePredNew ==
    [chr |-> "", start |-> 0, end |-> 0, strand |-> "Unknown",
     exons |-> <<>>, record_type |-> "Unknown", blocks |-> NoBlocks]

\* the start rule shared by the Child and Unknown arms of merge
MergeStart(self, q) ==
    IF self.start < 1 /\ q.start > 0 THEN q.start
    ELSE IF self.start > 0 /\ q.start > 0 THEN Min(self.start, q.start)
    ELSE self.start

MergeParent(self, q) ==
    [self EXCEPT
        !.chr = q.chr, !.start = q.start, !.end = q.end, !.strand = q.strand,
        !.record_type = "Parent",
        !.exons = BTreeExtend(@, q.exons)]

MergeChildDowngrade(self, q) ==
    LET adopt == self.chr = "" IN
    [self EXCEPT
        !.chr    = IF adopt THEN q.chr ELSE @,
        !.strand = IF adopt THEN q.strand ELSE @,
        !.end    = IF adopt THEN Max(@, q.end) ELSE @,
        !.start  = MergeStart(self, q),
        !.exons  = BTreeExtend(@, q.exons),
        !.record_type = "Child"]

MergeChild(self, q) ==
    LET adopt == self.chr = "" IN
    [self EXCEPT
        !.chr    = IF adopt THEN q.chr ELSE @,
        !.strand = IF adopt THEN q.strand ELSE @,
        !.end    = IF adopt THEN Max(@, q.end) ELSE @,
        !.start  = MergeStart(self, q),
        !.exons  = BTreeExtend(@, q.exons),
        !.record_type = IF @ # "Parent" THEN "Child" ELSE @]

MergeUnknown(self, q) ==
    LET adopt == self.chr = "" /\ q.chr # "" IN
    [self EXCEPT
        !.chr    = IF adopt THEN q.chr ELSE @,
        !.strand = IF adopt THEN q.strand ELSE @,
        !.end    = IF adopt THEN Max(@, q.end) ELSE @,
        !.start  = MergeStart(self, q)]

MergeTakeBlocks(self, q) ==
    LET m == CASE q.record_type = "Parent"  -> MergeParent(self, q)
               [] q.record_type = "Child"   -> MergeChild(self, q)
               [] q.record_type = "Unknown" -> MergeUnknown(self, q)
    IN  IF q.blocks.some
        THEN [m EXCEPT !.blocks = SomeBlocks(BTreeExtend(@.set, q.blocks.set))]
        ELSE m

\* GenePred::merge(&mut self, query)
Merge(self, q) ==
    CASE q.record_type = "Parent"  -> MergeParent(self, q)
      [] q.record_type = "Child"   -> MergeChild(self, q)
      [] q.record_type = "Unknown" -> MergeUnknown(self, q)

----------------------------------------------------------------------------
(* Inputs: parsed records and partial GenePreds of one key *)

ParentFeature == "transcript"
ChildFeatures == {"exon", "CDS"}
Features      == {"transcript", "exon", "CDS"}

\* 0-based start and end of a parsed line with raw_start <= raw_end
RecordSpans == {sp \in (0..MaxCoord) \X (1..(MaxCoord + 1)) : sp[1] < sp[2]}

\* GxfRecord values of one key
Records ==
    [chr : {"chr1"}, feature : Features, start : 0..MaxCoord,
     end : 1..(MaxCoord + 1), strand : {"Forward"}]

ValidRecords == {r \in Records : r.start < r.end}

\* exon sets of a partial: empty, or one interval <<start, size>>
PartialExons == {<<>>, << <<0, 1>> >>, << <<1, 1>> >>}

MkPartial(rt, chr, sp, strand, ex) ==
    [chr |-> chr, start |-> sp[1], end |-> sp[2], strand |-> strand,
     exons |-> ex, record_type |-> rt, blocks |-> NoBlocks]

\* partial GenePreds handed to merge. A Parent partial carries the span of
\* its parent line (start 0 included); a Child or Unknown partial either has
\* no coordinates yet (as to_bed builds it) or carries a span of its own (as
\* in the example of merge's documentation). Exon sets are empty or not.
Partials ==
    {MkPartial(rt, "chr1", sp, "Forward", ex) :
        rt \in RecordTypes, sp \in RecordSpans, ex \in PartialExons}
    \cup
    {MkPartial(rt, "", <<0, 0>>, "Unknown", ex) :
        rt \in {"Child", "Unknown"}, ex \in PartialExons}

----------------------------------------------------------------------------
(* utils.rs to_bed: the per-record update of the entry of the record's key *)

ToBedParent(e, r) ==
    IF r.feature = ParentFeature
    THEN [e EXCEPT !.chr = r.chr, !.start = r.start, !.end = r.end,
                   !.strand = r.strand, !.record_type = "Parent"]
    ELSE e

ToBedBlocks(e, r, ch) ==
    IF ch = "CDS" /\ r.feature = "exon"
    THEN [e EXCEPT !.blocks =
              SomeBlocks(BTreeInsert(@.set, <<r.start, r.end - r.start>>))]
    ELSE e

ToBedChild(e, r, ch) ==
    IF r.feature = ch
    THEN [e EXCEPT !.exons = BTreeInsert(@, <<r.start, r.end - r.start>>),
                   !.record_type = IF @ # "Parent" THEN "Child" ELSE @]
    ELSE e

\* the body of the for_each closure
ToBedUpdate(e, r, ch) == ToBedChild(ToBedBlocks(ToBedParent(e, r), r, ch), r, ch)

----------------------------------------------------------------------------
(* Idle values of the variable groups *)

NoQuery == [GenePredNew EXCEPT !.chr = "-"]
NoVals  == <<"-", 0, 0, "-">>

EntityIdle ==
    /\ entry = GenePredNew /\ prevType = "Unknown" /\ lastOp = "none"
    /\ nOps = 0 /\ prev = GenePredNew /\ query = NoQuery /\ parentVals = NoVals

MergeIdle == parts = <<>> /\ pend = <<>>

EmptyMap == <<>>

AggIdle ==
    /\ child = "exon" /\ lines = <<>> /\ pos = 0 /\ acc = EmptyMap
    /\ seqStatus = "idle" /\ pmaps = <<>> /\ parStatus = "idle"

NoName == "-"

WriteIdle ==
    /\ wStatus = "idle" /\ wdata = EmptyMap /\ wleft = {} /\ wlast = NoName
    /\ rows = <<>> /\ skips = 0

NoKind == [format |-> "-", compression |-> "-"]

FoldIdle == fRecs = <<>> /\ fFold = GenePredNew /\ fMerge = GenePredNew

PoolIdle == threads = 0 /\ busy = {}

AttrIdle ==
    /\ aFields = <<>> /\ aLine = <<>> /\ aKey = <<>> /\ aSep = "-"
    /\ aStatus = "idle" /\ aOut = <<>>

SepIdle == prog = "-" /\ sStatus = "idle" /\ sepBy = "-" /\ sOut = EmptyMap

RunIdle ==
    /\ pc = "idle" /\ path = <<>> /\ chunkSize = 1 /\ stream = <<>>
    /\ kind = NoKind /\ poolOk = FALSE /\ inputRead = FALSE
    /\ chunkIn = <<>> /\ rendered = <<>> /\ outputs = <<>>
    /\ mergedOut = <<>> /\ wrote = <<>>
    /\ file = [created |-> FALSE, bytes |-> <<>>]
    /\ runErr = "none"

----------------------------------------------------------------------------
(* SpecEntity: one entity under per-record updates and merge calls *)

InitEntity ==
    /\ FoldIdle
    /\ PoolIdle
    /\ AttrIdle
    /\ SepIdle
    /\ EntityIdle /\ MergeIdle /\ RunIdle /\ WriteIdle
    /\ child \in ChildFeatures
    /\ lines = <<>> /\ pos = 0 /\ acc = EmptyMap /\ seqStatus = "idle"
    /\ pmaps = <<>> /\ parStatus = "idle"

RecordOp(r) ==
    IF r.feature = ParentFeature THEN "record:parent"
    ELSE IF r.feature = child THEN "record:child"
    ELSE "record:other"

\* to_bed applies one record of the key to the entry
EntityRecord ==
    /\ nOps < MaxOps
    /\ \E r \in ValidRecords :
         /\ entry' = ToBedUpdate(entry, r, child)
         /\ lastOp' = RecordOp(r)
    /\ prevType' = entry.record_type
    /\ nOps' = nOps + 1
    /\ UNCHANGED <<prev, query, parentVals, mergeVars, aggVars, runVars, writeVars,
                  sepVars, attrVars, poolVars, foldVars>>

\* entry.merge(q) for a partial q of the key
EntityMerge ==
    /\ nOps < MaxOps
    /\ \E q \in Partials :
         /\ entry' = Merge(entry, q)
         /\ lastOp' = "merge:" \o q.record_type
    /\ prevType' = entry.record_type
    /\ nOps' = nOps + 1
    /\ UNCHANGED <<prev, query, parentVals, mergeVars, aggVars, runVars, writeVars,
                  sepVars, attrVars, poolVars, foldVars>>

NextEntity == EntityRecord \/ EntityMerge

SpecEntity == InitEntity /\ [][NextEntity]_vars

----------------------------------------------------------------------------
(* C5 *)

Rank(rt) == CASE rt = "Unknown" -> 0 [] rt = "Child" -> 1 [] rt = "Parent" -> 2

\* C5: record_type only moves along Unknown -> Child -> Parent: no per-record
\* update of to_bed and no merge call lowers the record type of an entity, so
\* a Parent stays Parent and a Child never becomes Unknown.
C5_RecordTypeMonotonic == Rank(entry.record_type) >= Rank(prevType)

\* a Parent entity has absorbed a Child partial and is still Parent
C5_Witness ==
    /\ prevType = "Parent" /\ lastOp = "merge:Child"
    /\ entry.record_type = "Parent" /\ entry.exons # <<>>

----------------------------------------------------------------------------
(* SpecMerge: the partial GenePreds of one key, one per chunk, are reduced *)
(* into a fresh GenePred::new() in any order and any grouping.             *)

RemoveAt(s, i) == SubSeq(s, 1, i - 1) \o SubSeq(s, i + 1, Len(s))

PartLists == UNION {[1..n -> Partials] : n \in 1..MaxParts}

Coords(g) == <<g.chr, g.start, g.end, g.strand>>

InitMerge ==
    /\ FoldIdle
    /\ PoolIdle
    /\ AttrIdle
    /\ SepIdle
    /\ EntityIdle /\ AggIdle /\ RunIdle /\ WriteIdle
    /\ parts \in PartLists
    /\ pend = parts

\* entry.merge(pend[i])
MergeInto ==
    \E i \in DOMAIN pend :
        /\ entry' = Merge(entry, pend[i])
        /\ prev' = entry
        /\ query' = pend[i]
        /\ prevType' = entry.record_type
        /\ lastOp' = "merge:" \o pend[i].record_type
        /\ nOps' = nOps + 1
        /\ parentVals' = IF pend[i].record_type = "Parent"
                         THEN Coords(pend[i]) ELSE parentVals
        /\ pend' = RemoveAt(pend, i)
        /\ UNCHANGED <<parts, aggVars, runVars, writeVars, sepVars, attrVars,
                  poolVars, foldVars>>

\* pend[i].merge(pend[j]): two partials are combined before they reach entry
MergePair ==
    \E i \in DOMAIN pend : \E j \in DOMAIN pend \ {i} :
        /\ pend' = RemoveAt([pend EXCEPT ![i] = Merge(pend[i], pend[j])], j)
        /\ UNCHANGED <<entityVars, parts, aggVars, runVars, writeVars, sepVars,
                  attrVars, poolVars, foldVars>>

NextMerge == MergeInto \/ MergePair

SpecMerge == InitMerge /\ [][NextMerge]_vars

RECURSIVE MergeAll(_, _)
\* the partials merged one after another, in list order
MergeAll(self, list) ==
    IF list = <<>> THEN self
    ELSE MergeAll(Merge(self, Head(list)), Tail(list))

\* the fields the claims compare
Fields(g) == <<g.chr, g.start, g.end, g.strand, g.exons, g.record_type>>

\* C2: merge is commutative and associative: whatever the order and the
\* grouping in which the partials of one key were merged, the final GenePred
\* has the chr, start, end, strand, exons and record_type of the merge in
\* list order.
C2_MergeOrderIndependent ==
    pend = <<>> => Fields(entry) = Fields(MergeAll(GenePredNew, parts))

\* C6: Parent always wins: after a Parent partial was absorbed, chr, start,
\* end and strand of the entity are the Parent's, whatever Child or Unknown
\* partial is merged afterwards.
C6_ParentAlwaysWins ==
    parentVals # NoVals => Coords(entry) = parentVals

\* C7: after self.merge(query) the exons of self are the union of its previous
\* exons and the exons of query, for a Parent, Child and Unknown query alike.
C7_ExonsUnion ==
    query # NoQuery =>
        SeqToSet(entry.exons) = SeqToSet(prev.exons) \cup SeqToSet(query.exons)

----------------------------------------------------------------------------
(* detect.rs *)

\* to_ascii_lowercase on the components the model uses
Lower(e) ==
    CASE e = "GTF" -> "gtf" [] e = "GFF" -> "gff" [] e = "GFF3" -> "gff3"
      [] e = "Gff3" -> "gff3" [] e = "GZ" -> "gz" [] e = "Zst" -> "zst"
      [] OTHER -> e

\* A file name is the sequence of its dot-separated components, the part
\* before the first dot first: <<"sample", "gtf", "gz">> is sample.gtf.gz
\* and <<"", "gtf">> is .gtf.

\* Path::extension: the part after the last dot, if the name has a dot that
\* is not its first character; "" stands for None
Extension(p) ==
    IF Len(p) < 2 \/ (Len(p) = 2 /\ p[1] = "") THEN "" ELSE p[Len(p)]

\* Path::file_stem: the name without its extension
FileStem(p) == IF Extension(p) = "" THEN p ELSE SubSeq(p, 1, Len(p) - 1)

ExtensionLowercase(p) == Lower(Extension(p))

\* the extension of the file stem
NestedExtension(p) == ExtensionLowercase(FileStem(p))

FormatFromExtensionNoGff3(e) ==
    CASE e = "gtf" -> "Gtf"
      [] e = "gff" -> "Gff"
      [] OTHER -> "-"

FormatFromExtension(e) ==
    CASE e = "gtf" -> "Gtf"
      [] e \in {"gff", "gff3"} -> "Gff"
      [] OTHER -> "-"

CompressionFromExtension(e) ==
    CASE e \in {"gz", "gzip"} -> "Gzip"
      [] e \in {"zst", "zstd"} -> "Zstd"
      [] e \in {"bz2", "bzip2"} -> "Bzip2"
      [] OTHER -> "-"

\* detect_input_kind; NoKind stands for Err(UnsupportedExtension)
DetectInputKind(p) ==
    LET e == ExtensionLowercase(p)
        c == CompressionFromExtension(e)
    IN  IF e = "" THEN NoKind
        ELSE IF c # "-"
        THEN LET f == FormatFromExtension(NestedExtension(p))
             IN  IF NestedExtension(p) = "" \/ f = "-" THEN NoKind
                 ELSE [format |-> f, compression |-> c]
        ELSE LET f == FormatFromExtension(e)
             IN  IF f = "-" THEN NoKind
                 ELSE [format |-> f, compression |-> "None"]

----------------------------------------------------------------------------
(* convert.rs: run, process_reader, render_chunk, write_output *)

\* input names of SpecRun
Paths ==
    {<<"sample", "gtf">>, <<"sample", "GFF3", "gz">>, <<"sample", "txt">>,
     <<"sample", "bed", "gz">>, <<"sample">>}

\* what the reader yields for a record: a GenePred, a ReaderError, or a
\* GenePred the BED writer rejects
ReaderOutcomes == {"ok", "readerr", "writeerr"}

Streams ==
    UNION {[1..n -> ReaderOutcomes] : n \in 0..MaxRecords}

NumChunks(n, size) == (n + size - 1) \div size

\* par_chunks: consecutive chunks of at most size records, tagged 0, 1, ...
\* a record is kept with its position in the input
ParChunks(st, size) ==
    [i \in 1..NumChunks(Len(st), size) |->
        [k \in 1..Min(size, Len(st) - (i - 1) * size) |->
            [id |-> (i - 1) * size + k, res |-> st[(i - 1) * size + k]]]]

\* the row write_record emits for a record
Row(rec) == <<"row", rec.id>>

RECURSIVE RenderLoopLastOnly(_, _)
RenderLoopLastOnly(chunk, buffer) ==
    IF chunk = <<>> THEN [ok |-> TRUE, buf |-> buffer, err |-> "none"]
    ELSE IF Head(chunk).res = "readerr"
    THEN [ok |-> FALSE, buf |-> <<>>, err |-> "Reader"]
    ELSE IF Head(chunk).res = "writeerr"
    THEN [ok |-> FALSE, buf |-> <<>>, err |-> "Writer"]
    ELSE RenderLoopLastOnly(Tail(chunk), <<Row(Head(chunk))>>)

RECURSIVE RenderLoop(_, _)
\* the loop of render_chunk: Ok(buffer) or the first error
RenderLoop(chunk, buffer) ==
    IF chunk = <<>> THEN [ok |-> TRUE, buf |-> buffer, err |-> "none"]
    ELSE IF Head(chunk).res = "readerr"
    THEN [ok |-> FALSE, buf |-> <<>>, err |-> "Reader"]
    ELSE IF Head(chunk).res = "writeerr"
    THEN [ok |-> FALSE, buf |-> <<>>, err |-> "Writer"]
    ELSE RenderLoop(Tail(chunk), Append(buffer, Row(Head(chunk))))

\* render_chunk(idx, chunk, ..)
RenderChunk(idx, chunk) ==
    LET r == RenderLoop(chunk, <<>>)
    IN  [idx |-> idx, ok |-> r.ok, buf |-> r.buf, err |-> r.err]

RECURSIVE InsertByIdx(_, _)
InsertByIdx(sorted, x) ==
    IF sorted = <<>> THEN <<x>>
    ELSE IF x.idx < Head(sorted).idx THEN <<x>> \o sorted
    ELSE <<Head(sorted)>> \o InsertByIdx(Tail(sorted), x)

RECURSIVE SortLoop(_, _)
SortLoop(done, rest) ==
    IF rest = <<>> THEN done
    ELSE SortLoop(InsertByIdx(done, Head(rest)), Tail(rest))

SortByKeyNone(v) == v

\* merged.sort_by_key(|(idx, _)| *idx), a stable sort
SortByKey(v) == SortLoop(<<>>, v)

FirstErr(v) ==
    LET bad == {i \in DOMAIN v : ~v[i].ok}
    IN  IF bad = {} THEN 0 ELSE CHOOSE i \in bad : \A j \in bad : i <= j

DrainSkipErrors(v) ==
    [failed |-> FALSE, err |-> "none",
     merged |-> SelectSeq(v, LAMBDA o : o.ok)]

\* the drain loop of process_reader: merged.push(output?)
Drain(v) ==
    IF FirstErr(v) = 0
    THEN [failed |-> FALSE, err |-> "none", merged |-> v]
    ELSE [failed |-> TRUE, err |-> v[FirstErr(v)].err, merged |-> <<>>]

InitRun ==
    /\ FoldIdle
    /\ PoolIdle
    /\ AttrIdle
    /\ SepIdle
    /\ EntityIdle /\ MergeIdle /\ AggIdle /\ WriteIdle
    /\ pc = "start"
    /\ path \in Paths
    /\ chunkSize \in 1..MaxChunkSize
    /\ stream \in Streams
    /\ kind = NoKind /\ poolOk = FALSE /\ inputRead = FALSE
    /\ chunkIn = <<>> /\ rendered = <<>> /\ outputs = <<>>
    /\ mergedOut = <<>> /\ wrote = <<>>
    /\ file = [created |-> FALSE, bytes |-> <<>>]
    /\ runErr = "none"

Fail(e) == pc' = "failed" /\ runErr' = e

\* run: detect_input_kind(&config.input)?
Detect ==
    /\ pc = "start"
    /\ kind' = DetectInputKind(path)
    /\ IF DetectInputKind(path) = NoKind
       THEN Fail("UnsupportedExtension")
       ELSE pc' = "pool" /\ UNCHANGED runErr
    /\ UNCHANGED <<path, chunkSize, stream, poolOk, inputRead, chunkIn,
                   rendered, outputs, mergedOut, wrote, file>>
    /\ UNCHANGED <<entityVars, mergeVars, aggVars, writeVars, sepVars,
                  attrVars, poolVars, foldVars>>

\* run: ThreadPoolBuilder::new().num_threads(..).build()?
BuildPool ==
    /\ pc = "pool"
    /\ \E built \in BOOLEAN :
         /\ poolOk' = built
         /\ IF built THEN pc' = "open" /\ UNCHANGED runErr
            ELSE Fail("ThreadPool")
    /\ UNCHANGED <<path, chunkSize, stream, kind, inputRead, chunkIn,
                   rendered, outputs, mergedOut, wrote, file>>
    /\ UNCHANGED <<entityVars, mergeVars, aggVars, writeVars, sepVars,
                  attrVars, poolVars, foldVars>>

\* process_reader: open_reader(..)? and reader.par_chunks(config.chunks)?
OpenReader ==
    /\ pc = "open"
    /\ \E opened \in BOOLEAN :
         IF opened
         THEN /\ inputRead' = TRUE
              /\ chunkIn' = ParChunks(stream, chunkSize)
              /\ rendered' = [i \in 1..NumChunks(Len(stream), chunkSize)
                                |-> "pending"]
              /\ pc' = "render"
              /\ UNCHANGED runErr
         ELSE /\ Fail("Reader")
              /\ UNCHANGED <<inputRead, chunkIn, rendered>>
    /\ UNCHANGED <<path, chunkSize, stream, kind, poolOk, outputs,
                   mergedOut, wrote, file>>
    /\ UNCHANGED <<entityVars, mergeVars, aggVars, writeVars, sepVars,
                  attrVars, poolVars, foldVars>>

\* a worker of the pool renders one chunk; results are collected as the
\* workers finish
RenderOne ==
    /\ pc = "render"
    /\ \E i \in DOMAIN rendered :
         /\ rendered[i] = "pending"
         /\ LET res == RenderChunk(i - 1, chunkIn[i])
            IN  /\ rendered' = [rendered EXCEPT
                                   ![i] = IF res.ok THEN "ok" ELSE "err"]
                /\ outputs' = Append(outputs, res)
    /\ UNCHANGED <<pc, path, chunkSize, stream, kind, poolOk, inputRead,
                   chunkIn, mergedOut, wrote, file, runErr>>
    /\ UNCHANGED <<entityVars, mergeVars, aggVars, writeVars, sepVars,
                  attrVars, poolVars, foldVars>>

\* process_reader after collect: the drain loop and the sort
Collect ==
    /\ pc = "render"
    /\ \A i \in DOMAIN rendered : rendered[i] # "pending"
    /\ LET d == Drain(outputs)
       IN  IF d.failed
           THEN Fail(d.err) /\ UNCHANGED mergedOut
           ELSE /\ mergedOut' = SortByKey(d.merged)
                /\ pc' = "create"
                /\ UNCHANGED runErr
    /\ UNCHANGED <<path, chunkSize, stream, kind, poolOk, inputRead,
                   chunkIn, rendered, outputs, wrote, file>>
    /\ UNCHANGED <<entityVars, mergeVars, aggVars, writeVars, sepVars,
                  attrVars, poolVars, foldVars>>

\* write_output: File::create(path)?
CreateOutput ==
    /\ pc = "create"
    /\ \E created \in BOOLEAN :
         IF created
         THEN /\ file' = [file EXCEPT !.created = TRUE]
              /\ pc' = "write"
              /\ UNCHANGED runErr
         ELSE Fail("Io") /\ UNCHANGED file
    /\ UNCHANGED <<path, chunkSize, stream, kind, poolOk, inputRead,
                   chunkIn, rendered, outputs, mergedOut, wrote>>
    /\ UNCHANGED <<entityVars, mergeVars, aggVars, writeVars, sepVars,
                  attrVars, poolVars, foldVars>>

\* write_output: writer.write_all(&buffer)? for the next chunk, and the
\* final flush
WriteNext ==
    /\ pc = "write"
    /\ IF Len(wrote) < Len(mergedOut)
       THEN \E written \in BOOLEAN :
              IF written
              THEN LET o == mergedOut[Len(wrote) + 1]
                   IN  /\ file' = [file EXCEPT !.bytes = @ \o o.buf]
                       /\ wrote' = Append(wrote, o.idx)
                       /\ UNCHANGED <<pc, runErr>>
              ELSE Fail("Io") /\ UNCHANGED <<file, wrote>>
       ELSE pc' = "done" /\ UNCHANGED <<file, wrote, runErr>>
    /\ UNCHANGED <<path, chunkSize, stream, kind, poolOk, inputRead,
                   chunkIn, rendered, outputs, mergedOut>>
    /\ UNCHANGED <<entityVars, mergeVars, aggVars, writeVars, sepVars,
                  attrVars, poolVars, foldVars>>

NextRun ==
    \/ Detect \/ BuildPool \/ OpenReader \/ RenderOne \/ Collect
    \/ CreateOutput \/ WriteNext

SpecRun == InitRun /\ [][NextRun]_vars

RECURSIVE SequentialOutput(_, _)
\* the buffers of the chunks i, i + 1, ... rendered one after another
SequentialOutput(chunks, i) ==
    IF i > Len(chunks) THEN <<>>
    ELSE RenderChunk(i - 1, chunks[i]).buf \o SequentialOutput(chunks, i + 1)

IsPrefix(a, b) == Len(a) <= Len(b) /\ SubSeq(b, 1, Len(a)) = a

\* C3: write_output writes the chunk buffers in strictly ascending chunk
\* index whatever the order in which the workers finished, and the bytes of
\* a finished run are those of rendering the chunks one after another.
C3_AscendingChunkOrder ==
    /\ \A i \in DOMAIN wrote : wrote[i] = i - 1
    /\ IsPrefix(file.bytes, SequentialOutput(chunkIn, 1))
    /\ pc = "done" => file.bytes = SequentialOutput(chunkIn, 1)

\* the workers finished out of index order and the run wrote all chunks
C3_Witness ==
    /\ pc = "done" /\ Len(outputs) >= 3
    /\ outputs[1].idx > outputs[2].idx
    /\ Len(wrote) = Len(outputs) /\ file.bytes # <<>>

\* C4: the output file is created or written only after extension detection,
\* pool construction and the rendering of every chunk succeeded; with an
\* unsupported extension no input is read; a chunk that returned an error
\* makes run fail without a call of write_output.
C4_NoOutputBeforeSuccess ==
    /\ (file.created \/ file.bytes # <<>>) =>
          /\ kind # NoKind /\ poolOk /\ inputRead
          /\ \A i \in DOMAIN rendered : rendered[i] = "ok"
    /\ runErr = "UnsupportedExtension" => ~inputRead /\ ~file.created
    /\ (\E i \in DOMAIN rendered : rendered[i] = "err") =>
          /\ ~file.created /\ file.bytes = <<>>
          /\ pc \in {"render", "failed"}
          /\ pc = "failed" => runErr \in {"Reader", "Writer"}

\* a chunk failed after another chunk was rendered, and the run failed
\* without an output file
C4_Witness ==
    /\ pc = "failed" /\ runErr \in {"Reader", "Writer"}
    /\ \E i \in DOMAIN rendered : rendered[i] = "err"
    /\ \E i \in DOMAIN rendered : rendered[i] = "ok"
    /\ ~file.created

\* the records of chunk c in input order
ChunkIds(c) == [k \in DOMAIN c |-> c[k].id]

\* the record a row was rendered from
RowIds(buf) == [k \in DOMAIN buf |-> buf[k][2]]

\* C29: every record the reader hands out is rendered in exactly one chunk
\* buffer and every chunk buffer is written exactly once; the output of a
\* successful run holds one row per record, none lost and none duplicated,
\* for every chunk size and every order in which the workers finish.
C29_EachRecordOnce ==
    /\ \A i, j \in DOMAIN outputs :
          outputs[i].idx = outputs[j].idx => i = j
    /\ \A i \in DOMAIN outputs :
          outputs[i].ok =>
              RowIds(outputs[i].buf) = ChunkIds(chunkIn[outputs[i].idx + 1])
    /\ \A i, j \in DOMAIN wrote : wrote[i] = wrote[j] => i = j
    /\ \A i, j \in DOMAIN file.bytes :
          file.bytes[i][2] = file.bytes[j][2] => i = j
    /\ pc = "done" =>
          /\ RowIds(file.bytes) = [k \in 1..Len(stream) |-> k]
          /\ {wrote[i] : i \in DOMAIN wrote} =
                 0..(NumChunks(Len(stream), chunkSize) - 1)

\* a finished run over three records in chunks of two (a full chunk and a
\* short last one) whose second chunk was rendered first
C29_Witness ==
    /\ pc = "done" /\ Len(stream) = 3 /\ chunkSize = 2
    /\ Len(outputs) = 2 /\ outputs[1].idx = 1
    /\ Len(file.bytes) = 3

----------------------------------------------------------------------------
(* Input lines and GxfRecord::parse *)

Key == "tx1"

\* Attribute::parse found no field of the target key: feat.unwrap_or("")
NoKey == ""

MalformedKinds == {"empty", "short", "badcoord"}

\* a line that is no record: the empty line, a line of fewer than 9 fields,
\* a line whose start or end is no number, a comment line
NoRecordLine(k) ==
    [kind |-> k, feature |-> "-", rs |-> 0, re |-> 0, strand |-> ".",
     key |-> ""]

\* raw 1-based coordinates of the record lines, raw_start <= raw_end
RawSpans == {sp \in (1..MaxCoord) \X (1..MaxCoord) : sp[1] <= sp[2]}

\* the lines of a file whose records are on strand st
LineSet(st) ==
    {NoRecordLine(k) : k \in MalformedKinds \cup {"comment"}}
    \cup
    {[kind |-> "rec", feature |-> f, rs |-> sp[1], re |-> sp[2],
      strand |-> st, key |-> Key] : f \in Features, sp \in RawSpans}
    \cup
    {[kind |-> "rec", feature |-> f, rs |-> 1, re |-> 1,
      strand |-> st, key |-> NoKey] : f \in Features}

StrandChars == {"+", "-", "."}

\* Strand::from_str
ParseStrand(c) ==
    CASE c = "+" -> "Forward" [] c = "-" -> "Reverse" [] OTHER -> "Unknown"

\* Strand's Display
StrandStr(st) ==
    CASE st = "Forward" -> "+" [] st = "Reverse" -> "-" [] OTHER -> "."

NoRecord ==
    [chr |-> "", feature |-> "-", start |-> 0, end |-> 0,
     strand |-> "Unknown", key |-> ""]

ParseNoShift(line) ==
    CASE line.kind = "empty" -> [res |-> "Err", rec |-> NoRecord]
      [] line.kind \in {"short", "badcoord"} ->
            [res |-> "panic", rec |-> NoRecord]
      [] OTHER ->
            [res |-> "Ok",
             rec |-> [chr |-> "chr1", feature |-> line.feature,
                      start |-> line.rs, end |-> line.re,
                      strand |-> ParseStrand(line.strand),
                      key |-> line.key]]

\* GxfRecord::parse: Err("Empty line"), a panic, or Ok(record)
Parse(line) ==
    CASE line.kind = "empty" -> [res |-> "Err", rec |-> NoRecord]
      [] line.kind \in {"short", "badcoord"} ->
            [res |-> "panic", rec |-> NoRecord]
      [] OTHER ->
            [res |-> "Ok",
             rec |-> [chr |-> "chr1", feature |-> line.feature,
                      start |-> line.rs - 1, end |-> line.re,
                      strand |-> ParseStrand(line.strand),
                      key |-> line.key]]

----------------------------------------------------------------------------
(* utils.rs to_bed: the sequential fold, one line per step *)

MapGet(m, k, default) == IF k \in DOMAIN m THEN m[k] ELSE default

MapPut(m, k, v) == [x \in DOMAIN m \cup {k} |-> IF x = k THEN v ELSE m[x]]

\* lines().filter(not comment).filter_map(parse(..).ok()).for_each(..)
SeqStep ==
    /\ seqStatus = "running"
    /\ pos < Len(lines)
    /\ LET line == lines[pos + 1]
           p == Parse(line)
       IN  IF line.kind = "comment" \/ p.res = "Err"
           THEN pos' = pos + 1 /\ UNCHANGED <<acc, seqStatus>>
           ELSE IF p.res = "panic"
           THEN seqStatus' = "panic" /\ UNCHANGED <<pos, acc>>
           ELSE /\ acc' = MapPut(acc, p.rec.key,
                            ToBedUpdate(MapGet(acc, p.rec.key, GenePredNew),
                                        p.rec, child))
                /\ pos' = pos + 1
                /\ UNCHANGED seqStatus
    /\ UNCHANGED <<child, lines, pmaps, parStatus>>
    /\ UNCHANGED <<entityVars, mergeVars, runVars, writeVars, sepVars,
                  attrVars, poolVars, foldVars>>

\* Ok(acc)
SeqReturn ==
    /\ seqStatus = "running"
    /\ pos = Len(lines)
    /\ seqStatus' = "done"
    /\ UNCHANGED <<child, lines, pos, acc, pmaps, parStatus>>
    /\ UNCHANGED <<entityVars, mergeVars, runVars, writeVars, sepVars,
                  attrVars, poolVars, foldVars>>

----------------------------------------------------------------------------
(* main.rs to_bed: rayon fold over the splits of the lines, then reduce.   *)
(* An entry is a map from field names to strings; a decimal string is      *)
(* modelled by its number, a comma-joined list by the sequence of its      *)
(* numbers, the string of dots by its length.                              *)

\* to_exon
ToExon(e, rec) ==
    LET e1 == MapPut(e, "exons", MapGet(e, "exons", 0) + 1)
        e2 == MapPut(e1, "exon_starts",
                     Append(MapGet(e1, "exon_starts", <<>>), rec.start))
    IN  MapPut(e2, "exon_sizes",
               Append(MapGet(e2, "exon_sizes", <<>>), rec.end - rec.start))

\* send_ft
SendFt(e, rec, ch) ==
    IF rec.feature = ParentFeature
    THEN MapPut(MapPut(MapPut(MapPut(e, "chr", rec.chr),
                              "start", rec.start),
                       "end", rec.end),
                "strand", StrandStr(rec.strand))
    ELSE IF rec.feature = ch THEN ToExon(e, rec)
    ELSE IF rec.feature = "start_codon"
    THEN MapPut(e, "start_codon", rec.start)
    ELSE IF rec.feature = "stop_codon"
    THEN MapPut(e, "stop_codon", rec.start)
    ELSE e

\* the closure of try_fold_with for one parsed record
FoldRecord(m, rec, ch) ==
    IF rec.key = "" THEN m
    ELSE MapPut(m, rec.key, SendFt(MapGet(m, rec.key, EmptyMap), rec, ch))

RECURSIVE FoldLines(_, _, _, _)
\* one split folded from lo to hi: the map, or the first failure
FoldLines(m, lo, hi, ch) ==
    IF lo > hi THEN [state |-> "ok", map |-> m]
    ELSE IF lines[lo].kind = "comment" THEN FoldLines(m, lo + 1, hi, ch)
    ELSE LET p == Parse(lines[lo])
         IN  IF p.res = "panic" THEN [state |-> "panic", map |-> EmptyMap]
             ELSE IF p.res = "Err" THEN [state |-> "err", map |-> EmptyMap]
             ELSE FoldLines(FoldRecord(m, p.rec, ch), lo + 1, hi, ch)

\* entry.insert(k2, v2) for every field of the right entry
OverrideEntry(e1, e2) ==
    [f \in DOMAIN e1 \cup DOMAIN e2 |->
        IF f \in DOMAIN e2 THEN e2[f] ELSE e1[f]]

\* the closure of try_reduce_with
ReduceMaps(map1, map2) ==
    [k \in DOMAIN map1 \cup DOMAIN map2 |->
        IF k \in DOMAIN map2
        THEN OverrideEntry(MapGet(map1, k, EmptyMap), map2[k])
        ELSE map1[k]]

\* a failure of either side ends the reduction
Combine(a, b) ==
    IF a.state = "panic" \/ b.state = "panic"
    THEN [lo |-> a.lo, hi |-> b.hi, state |-> "panic", map |-> EmptyMap]
    ELSE IF a.state = "err" \/ b.state = "err"
    THEN [lo |-> a.lo, hi |-> b.hi, state |-> "err", map |-> EmptyMap]
    ELSE [lo |-> a.lo, hi |-> b.hi, state |-> "ok",
          map |-> ReduceMaps(a.map, b.map)]

RECURSIVE Splits(_, _, _)
\* the consecutive pieces lo..hi of 1..n cut after the positions in c
Splits(lo, n, c) ==
    LET later == {x \in c : x >= lo}
        hi == IF later = {} THEN n
              ELSE CHOOSE x \in later : \A y \in later : x <= y
    IN  IF lo > n THEN <<>>
        ELSE <<[lo |-> lo, hi |-> hi, state |-> "todo", map |-> EmptyMap]>>
             \o Splits(hi + 1, n, c)

\* rayon splits the lines into consecutive pieces
ParSplit ==
    /\ parStatus = "idle"
    /\ seqStatus \in {"done", "panic"}
    /\ \E c \in SUBSET (1..(Len(lines) - 1)) :
         pmaps' = Splits(1, Len(lines), c)
    /\ parStatus' = "folding"
    /\ UNCHANGED <<child, lines, pos, acc, seqStatus>>
    /\ UNCHANGED <<entityVars, mergeVars, runVars, writeVars, sepVars,
                  attrVars, poolVars, foldVars>>

\* a worker folds one piece into a fresh HashMap
ParFold ==
    /\ parStatus = "folding"
    /\ \E k \in DOMAIN pmaps :
         /\ pmaps[k].state = "todo"
         /\ LET r == FoldLines(EmptyMap, pmaps[k].lo, pmaps[k].hi, child)
            IN  pmaps' = [pmaps EXCEPT ![k].state = r.state,
                                       ![k].map = r.map]
    /\ UNCHANGED <<child, lines, pos, acc, seqStatus, parStatus>>
    /\ UNCHANGED <<entityVars, mergeVars, runVars, writeVars, sepVars,
                  attrVars, poolVars, foldVars>>

\* two neighbouring folded pieces are reduced, the left one as map1
ParReduce ==
    /\ parStatus = "folding"
    /\ \E k \in 1..(Len(pmaps) - 1) :
         /\ pmaps[k].state # "todo" /\ pmaps[k + 1].state # "todo"
         /\ pmaps' = SubSeq(pmaps, 1, k - 1)
                       \o <<Combine(pmaps[k], pmaps[k + 1])>>
                       \o SubSeq(pmaps, k + 2, Len(pmaps))
    /\ UNCHANGED <<child, lines, pos, acc, seqStatus, parStatus>>
    /\ UNCHANGED <<entityVars, mergeVars, runVars, writeVars, sepVars,
                  attrVars, poolVars, foldVars>>

\* the value to_bed returns
ParReturn ==
    /\ parStatus = "folding"
    /\ Len(pmaps) = 1 /\ pmaps[1].state # "todo"
    /\ parStatus' = CASE pmaps[1].state = "ok" -> "done"
                      [] pmaps[1].state = "err" -> "error"
                      [] OTHER -> "panic"
    /\ UNCHANGED <<child, lines, pos, acc, seqStatus, pmaps>>
    /\ UNCHANGED <<entityVars, mergeVars, runVars, writeVars, sepVars,
                  attrVars, poolVars, foldVars>>

InitAgg ==
    /\ FoldIdle
    /\ PoolIdle
    /\ AttrIdle
    /\ SepIdle
    /\ EntityIdle /\ MergeIdle /\ RunIdle /\ WriteIdle
    /\ child \in ChildFeatures
    /\ \E st \in StrandChars :
         lines \in UNION {[1..n -> LineSet(st)] : n \in 1..MaxLines}
    /\ pos = 0 /\ acc = EmptyMap /\ seqStatus = "running"
    /\ pmaps = <<>> /\ parStatus = "idle"

NextAgg == SeqStep \/ SeqReturn \/ ParSplit \/ ParFold \/ ParReduce \/ ParReturn

SpecAgg == InitAgg /\ [][NextAgg]_vars

----------------------------------------------------------------------------
(* Claims about aggregation, checked under SpecAgg *)

\* gxf.rs get_exon_starts and get_exon_sizes
GetExonStarts(g) == [i \in 1..Len(g.exons) |-> g.exons[i][1]]

GetExonSizes(g) == [i \in 1..Len(g.exons) |-> g.exons[i][2]]

\* the <<start, size>> pairs an entry of main.rs holds, in list order
EntryExons(e) ==
    LET starts == MapGet(e, "exon_starts", <<>>)
        sizes  == MapGet(e, "exon_sizes", <<>>)
    IN  [i \in 1..Len(starts) |-> <<starts[i], sizes[i]>>]

\* one parent line and child lines only, all of one key
TwoLevel ==
    /\ \A i \in DOMAIN lines :
         /\ lines[i].kind = "rec" /\ lines[i].key = Key
         /\ lines[i].feature \in {ParentFeature, child}
    /\ Cardinality({i \in DOMAIN lines : lines[i].feature = ParentFeature}) = 1

SeqView(g) == <<g.chr, g.start, g.end, StrandStr(g.strand), SeqToSet(g.exons)>>

ParView(e) ==
    <<MapGet(e, "chr", ""), MapGet(e, "start", 0), MapGet(e, "end", 0),
      MapGet(e, "strand", ""), SeqToSet(EntryExons(e))>>

\* C1: for one parent line plus child lines of one key, whatever the splits
\* and the schedule, the parallel fold-then-reduce returns exactly one entity
\* for the key, equal in chr, start, end, strand and exon intervals to the
\* entity of the sequential fold over the same lines.
C1_ParallelEqualsSequential ==
    (TwoLevel /\ seqStatus = "done" /\ parStatus \in {"done", "error", "panic"})
        => /\ parStatus = "done"
           /\ DOMAIN pmaps[1].map = {Key}
           /\ DOMAIN acc = {Key}
           /\ ParView(pmaps[1].map[Key]) = SeqView(acc[Key])

StrictlyAscending(s) ==
    \A i, j \in DOMAIN s : i < j => PairLess(s[i], s[j])

\* C8: in every state of aggregation the exons of every entity are in
\* strictly ascending order (sorted by start, no pair twice), and the lists
\* rendered from them keep that order on every strand.
C8_ExonsSortedNoDuplicates ==
    /\ \A k \in DOMAIN acc :
         /\ StrictlyAscending(acc[k].exons)
         /\ \A i, j \in DOMAIN GetExonStarts(acc[k]) :
              i < j => GetExonStarts(acc[k])[i] <= GetExonStarts(acc[k])[j]
    /\ \A n \in DOMAIN pmaps : \A k \in DOMAIN pmaps[n].map :
         StrictlyAscending(EntryExons(pmaps[n].map[k]))

\* only child lines, all of one key
OnlyChildren ==
    \A i \in DOMAIN lines :
        lines[i].kind = "rec" /\ lines[i].key = Key /\ lines[i].feature = child

\* C9: a key that received only child records has, after aggregation, the
\* chromosome and strand of a child, the least child start and the greatest
\* child end.
C9_ChildOnlyEntity ==
    (OnlyChildren /\ seqStatus = "done")
        => /\ Key \in DOMAIN acc
           /\ acc[Key].chr = "chr1"
           /\ acc[Key].strand = ParseStrand(lines[1].strand)
           /\ \E i \in DOMAIN lines : acc[Key].start = lines[i].rs - 1
           /\ \A i \in DOMAIN lines : acc[Key].start <= lines[i].rs - 1
           /\ \E i \in DOMAIN lines : acc[Key].end = lines[i].re
           /\ \A i \in DOMAIN lines : acc[Key].end >= lines[i].re

Malformed(i) == lines[i].kind \in MalformedKinds

\* C10: an empty line, a line of fewer than 9 fields and a line with an
\* unparsable coordinate abort processing: the fold never moves past such a
\* line and no run that met one returns a result.
C10_MalformedLineAborts ==
    /\ \A i \in 1..pos : ~Malformed(i)
    /\ seqStatus = "done" => \A i \in DOMAIN lines : ~Malformed(i)
    /\ parStatus = "done" => \A i \in DOMAIN lines : ~Malformed(i)

\* C11: a record whose attribute column lacks the target key has the empty
\* identifier and is left out of aggregation: no map of either aggregation
\* ever holds an entity keyed by the empty string.
C11_EmptyKeyExcluded ==
    /\ NoKey \notin DOMAIN acc
    /\ \A n \in DOMAIN pmaps : NoKey \notin DOMAIN pmaps[n].map

----------------------------------------------------------------------------
(* utils.rs convert and write_obj: the aggregated entities are rendered    *)
(* one by one, in the order the HashMap yields them.                       *)

OtherKey == "tx2"

\* raw spans of the lines of Key: a transcript, its two ends
WriteSpans == {<<1, 9>>, <<1, 5>>, <<8, 9>>}

\* the lines of a file on strand st: any feature of Key on any span, and a
\* transcript line and an exon line of a second key
WriteLineSet(st) ==
    {[kind |-> "rec", feature |-> f, rs |-> sp[1], re |-> sp[2],
      strand |-> st, key |-> Key] : f \in Features, sp \in WriteSpans}
    \cup
    {[kind |-> "rec", feature |-> f, rs |-> 1, re |-> 5,
      strand |-> st, key |-> OtherKey] : f \in {ParentFeature, "exon"}}

RECURSIVE ToBedAll(_, _, _, _)
\* utils.rs to_bed over the lines i, i + 1, ...: the map, or a panic
ToBedAll(m, ls, i, ch) ==
    IF i > Len(ls) THEN [state |-> "ok", map |-> m]
    ELSE LET p == Parse(ls[i])
         IN  IF ls[i].kind = "comment" \/ p.res = "Err"
             THEN ToBedAll(m, ls, i + 1, ch)
             ELSE IF p.res = "panic"
             THEN [state |-> "panic", map |-> EmptyMap]
             ELSE ToBedAll(MapPut(m, p.rec.key,
                             ToBedUpdate(MapGet(m, p.rec.key, GenePredNew),
                                         p.rec, ch)),
                           ls, i + 1, ch)

BTreeRemove(set, p) == SelectSeq(set, LAMBDA x : x # p)

SaturatingSub(a, b) == IF a > b THEN a - b ELSE 0

\* the exon branch of write_obj: first and last exon moved to the bounds
SnapExons(info) ==
    LET first == info.exons[1]
        last  == info.exons[Len(info.exons)]
        rest  == BTreeRemove(BTreeRemove(info.exons, first), last)
        first_end == first[1] + first[2]
    IN  BTreeInsert(
            BTreeInsert(rest, <<info.start,
                                SaturatingSub(first_end, info.start)>>),
            <<last[1], SaturatingSub(info.end, last[1])>>)

\* get_exon_starts_relative panics on an exon left of the entity start
RelativePanics(g) == \E i \in DOMAIN g.exons : g.start > g.exons[i][1]

GetExonStartsRelative(g) ==
    [i \in 1..Len(g.exons) |-> g.exons[i][1] - g.start]

RECURSIVE JoinComma(_)
\* the items as decimal strings joined by ","
JoinComma(v) ==
    IF v = <<>> THEN <<>>
    ELSE IF Len(v) = 1 THEN <<ToString(v[1])>>
    ELSE <<ToString(v[1]), ",">> \o JoinComma(Tail(v))

\* get_exons_info: (sizes, relative starts), each with "," appended
GetExonsInfo(g) ==
    <<JoinComma(GetExonSizes(g)) \o <<",">>,
      JoinComma(GetExonStartsRelative(g)) \o <<",">> >>

NoRow ==
    [chr |-> "", start |-> 0, end |-> 0, name |-> NoName, strand |-> ".",
     thickStart |-> 0, thickEnd |-> 0, blockCount |-> 0,
     blockSizes |-> <<>>, blockStarts |-> <<>>]

RenderedExonsSnapBlocks(info, ch) ==
    IF ch = "CDS" THEN SnapExons([info EXCEPT !.exons = info.blocks.set])
    ELSE SnapExons(info)

RenderedExonsKeepChild(info, ch) ==
    IF ch = "CDS" THEN info.exons ELSE SnapExons(info)

\* the exons write_obj renders: blocks for CDS, snapped exons otherwise
RenderedExons(info, ch) ==
    IF ch = "CDS" THEN info.blocks.set ELSE SnapExons(info)

ThickStartFromEntity(info, ch, checks) == [ok |-> TRUE, v |-> info.start]

\* cds_start after the strand adjustment; checks = overflow checks are on
ThickStart(info, ch, checks) ==
    LET cds_start == info.exons[1][1]
    IN  IF ch = "CDS" /\ info.strand = "Reverse"
        THEN IF cds_start >= 3 THEN [ok |-> TRUE, v |-> cds_start - 3]
             ELSE IF checks THEN [ok |-> FALSE, v |-> 0]
             ELSE [ok |-> TRUE, v |-> cds_start - 3 + WrapAt]
        ELSE [ok |-> TRUE, v |-> cds_start]

ThickEndNoStop(info, ch) ==
    info.exons[Len(info.exons)][1] + info.exons[Len(info.exons)][2]

\* cds_end after the strand adjustment
ThickEnd(info, ch) ==
    LET last == info.exons[Len(info.exons)]
        cds_end == last[1] + last[2]
    IN  IF ch = "CDS" /\ info.strand = "Forward" THEN cds_end + 3
        ELSE cds_end

BlocksMissingIgnored(info, ch) == FALSE

\* the else branch of `if let Some(blocks) = info.blocks.as_mut()`
BlocksMissing(info, ch) == ch = "CDS" /\ ~info.blocks.some

BadCoordsStartOnly(cds_start, cds_end, info) == info.start >= info.end

\* (cds_start >= cds_end) || (info.start >= info.end)
BadCoords(cds_start, cds_end, info) ==
    cds_start >= cds_end \/ info.start >= info.end

\* one pass of the loop of write_obj for the entity info of key name
WriteObjEntity(name, info, ch, checks) ==
    IF info.exons = <<>> THEN [out |-> "skip", row |-> NoRow]
    ELSE IF BlocksMissing(info, ch)
    THEN [out |-> "exit", row |-> NoRow]
    ELSE IF ch = "CDS" /\ info.strand = "Unknown"
    THEN [out |-> "exit", row |-> NoRow]
    ELSE IF ~ThickStart(info, ch, checks).ok
    THEN [out |-> "panic", row |-> NoRow]
    ELSE LET final == [info EXCEPT !.exons = RenderedExons(info, ch)]
             cds_start == ThickStart(info, ch, checks).v
             cds_end == ThickEnd(info, ch)
         IN  IF RelativePanics(final) THEN [out |-> "panic", row |-> NoRow]
             ELSE IF BadCoords(cds_start, cds_end, final)
             THEN [out |-> "exit", row |-> NoRow]
             ELSE [out |-> "row",
                   row |-> [chr |-> final.chr, start |-> final.start,
                            end |-> final.end, name |-> name,
                            strand |-> StrandStr(final.strand),
                            thickStart |-> cds_start, thickEnd |-> cds_end,
                            blockCount |-> Len(final.exons),
                            blockSizes |-> GetExonsInfo(final)[1],
                            blockStarts |-> GetExonsInfo(final)[2]]]

InitWrite ==
    /\ FoldIdle
    /\ PoolIdle
    /\ AttrIdle
    /\ SepIdle
    /\ EntityIdle /\ MergeIdle /\ RunIdle
    /\ child \in ChildFeatures
    /\ \E st \in StrandChars :
         lines \in UNION {[1..n -> WriteLineSet(st)] : n \in 1..MaxWriteLines}
    /\ pos = 0 /\ acc = EmptyMap /\ seqStatus = "idle"
    /\ pmaps = <<>> /\ parStatus = "idle"
    /\ wStatus = "start" /\ wdata = EmptyMap /\ wleft = {} /\ wlast = NoName
    /\ rows = <<>> /\ skips = 0

\* convert: to_bed(&contents, ..).expect(..)
ConvertToBed ==
    /\ wStatus = "start"
    /\ LET r == ToBedAll(EmptyMap, lines, 1, child)
       IN  IF r.state = "ok"
           THEN wdata' = r.map /\ wStatus' = "parsed"
           ELSE wStatus' = "panic" /\ UNCHANGED wdata
    /\ UNCHANGED <<wleft, wlast, rows, skips>>
    /\ UNCHANGED <<entityVars, mergeVars, aggVars, runVars, sepVars,
                  attrVars, poolVars, foldVars>>

\* write_obj: File::create(&filename), a panic when it fails
WriteCreate ==
    /\ wStatus = "parsed"
    /\ \E created \in BOOLEAN :
         IF created
         THEN wStatus' = "writing" /\ wleft' = DOMAIN wdata
         ELSE wStatus' = "nofile" /\ UNCHANGED wleft
    /\ UNCHANGED <<wdata, wlast, rows, skips>>
    /\ UNCHANGED <<entityVars, mergeVars, aggVars, runVars, sepVars,
                  attrVars, poolVars, foldVars>>

CountSkipNever(n, out) == n

\* skips += 1
CountSkip(n, out) == IF out = "skip" THEN n + 1 ELSE n

\* write_obj: one pass of the loop, for whichever entity the map yields
\* next; the build has overflow checks or not
WriteEntity ==
    /\ wStatus = "writing"
    /\ \E k \in wleft, checks \in BOOLEAN :
         LET r == WriteObjEntity(k, wdata[k], child, checks)
         IN  /\ wlast' = k
             /\ wleft' = wleft \ {k}
             /\ rows' = IF r.out = "row" THEN Append(rows, r.row) ELSE rows
             /\ skips' = CountSkip(skips, r.out)
             /\ wStatus' = IF r.out \in {"exit", "panic"} THEN r.out
                           ELSE wStatus
    /\ UNCHANGED wdata
    /\ UNCHANGED <<entityVars, mergeVars, aggVars, runVars, sepVars,
                  attrVars, poolVars, foldVars>>

\* write_obj: the loop is over, the skip count is logged
WriteFinish ==
    /\ wStatus = "writing"
    /\ wleft = {}
    /\ wStatus' = "done"
    /\ UNCHANGED <<wdata, wleft, wlast, rows, skips>>
    /\ UNCHANGED <<entityVars, mergeVars, aggVars, runVars, sepVars,
                  attrVars, poolVars, foldVars>>

NextWrite == ConvertToBed \/ WriteCreate \/ WriteEntity \/ WriteFinish

SpecWrite == InitWrite /\ [][NextWrite]_vars

----------------------------------------------------------------------------
(* Claims about rendering, checked under SpecWrite *)

\* the keys the loop of write_obj has taken from the map
Visited ==
    IF wStatus \in {"idle", "start", "parsed", "nofile"} THEN {}
    ELSE DOMAIN wdata \ wleft

RowNames == {rows[i].name : i \in DOMAIN rows}

\* C12: an entity without exons is never written as a row, adds exactly one
\* to the skip count and does not stop the run: a run that ends has written
\* every other entity and counted every such one.
C12_EmptyEntitySkipped ==
    /\ \A k \in RowNames : wdata[k].exons # <<>>
    /\ skips = Cardinality({k \in Visited : wdata[k].exons = <<>>})
    /\ (wlast # NoName /\ wdata[wlast].exons = <<>>)
          => wStatus \in {"writing", "done"}
    /\ wStatus = "done"
          => /\ RowNames = {k \in DOMAIN wdata : wdata[k].exons # <<>>}
             /\ Len(rows) = Cardinality(RowNames)

\* the run ended after one entity was skipped and another one was written
C12_Witness ==
    /\ wStatus = "done" /\ skips = 1 /\ Len(rows) = 1
    /\ wdata[wlast].exons = <<>>

\* C13: with child "CDS", an entity that has a CDS interval but no recorded
\* blocks ends the run with a failure, and no row is written for it.
C13_NoBlocksIsFatal ==
    /\ \A k \in RowNames : child = "CDS" => wdata[k].blocks.some
    /\ (/\ child = "CDS" /\ wlast # NoName
        /\ wdata[wlast].exons # <<>> /\ ~wdata[wlast].blocks.some)
          => wStatus = "exit" /\ wlast \notin RowNames

\* the run ended at an entity with a parent line and a CDS line but no exon
C13_Witness ==
    /\ child = "CDS" /\ wStatus = "exit" /\ wlast = Key
    /\ wdata[Key].record_type = "Parent"
    /\ wdata[Key].exons # <<>> /\ ~wdata[Key].blocks.some

\* the thick bounds write_obj compares, overflow checks off
ThickBad(info) ==
    ThickStart(info, child, FALSE).v >= ThickEnd(info, child)

ParentLines(k) ==
    {i \in DOMAIN lines :
        lines[i].key = k /\ lines[i].feature = ParentFeature}

\* C15: a parsed record has start = raw start - 1 and end = raw end; the
\* row of an entity with a parent line has the parent's raw start - 1 as
\* start and the parent's raw end as end (the last parent line counts).
C15_ZeroBasedStart ==
    /\ \A i \in DOMAIN lines :
         /\ Parse(lines[i]).rec.start = lines[i].rs - 1
         /\ Parse(lines[i]).rec.end = lines[i].re
    /\ \A j \in DOMAIN rows :
         \A p \in ParentLines(rows[j].name) :
            (\A q \in ParentLines(rows[j].name) : q <= p)
                => /\ rows[j].start = lines[p].rs - 1
                   /\ rows[j].end = lines[p].re

\* a row was written for a transcript line with raw start 8 and raw end 9
C15_Witness ==
    \E j \in DOMAIN rows :
        /\ rows[j].start = 7 /\ rows[j].end = 9
        /\ \E p \in ParentLines(rows[j].name) :
              lines[p].rs = 8 /\ lines[p].re = 9

\* the exon lines of key k as a sorted set of <<start, size>>
ExonLinePairs(k) ==
    LET sel == SelectSeq(lines,
                 LAMBDA l : l.key = k /\ l.feature = "exon")
    IN  BTreeExtend(<<>>, [i \in DOMAIN sel |->
                             <<sel[i].rs - 1, sel[i].re - (sel[i].rs - 1)>>])

\* the child lines of key k as a sorted set of <<start, size>>
ChildLinePairs(k) ==
    LET sel == SelectSeq(lines,
                 LAMBDA l : l.key = k /\ l.feature = child)
    IN  BTreeExtend(<<>>, [i \in DOMAIN sel |->
                             <<sel[i].rs - 1, sel[i].re - (sel[i].rs - 1)>>])

\* the block fields of a row whose blocks are the pairs ex
BlocksAre(row, ex) ==
    /\ row.blockCount = Len(ex)
    /\ row.blockSizes = JoinComma([i \in DOMAIN ex |-> ex[i][2]]) \o <<",">>
    /\ row.blockStarts =
         JoinComma([i \in DOMAIN ex |-> ex[i][1] - row.start]) \o <<",">>

\* C16: in every row blockCount is the number of exons, the i-th block size
\* is the length end - start of the i-th record in ascending start order,
\* the i-th block start is its start minus the entity start, and both
\* lists are joined by commas and end with a comma.
C16_BlocksLiteral ==
    \A j \in DOMAIN rows :
        BlocksAre(rows[j],
                  IF child = "CDS" THEN ExonLinePairs(rows[j].name)
                  ELSE ChildLinePairs(rows[j].name))

\* C17 as stated: when the child feature is not "CDS", thickStart is the
\* entity start and thickEnd is the entity end in every row.
C17_ThickIsEntitySpan ==
    child # "CDS" =>
        \A j \in DOMAIN rows :
            /\ rows[j].thickStart = rows[j].start
            /\ rows[j].thickEnd = rows[j].end

\* C17 amended: when the child feature is not "CDS", thickStart is the
\* start of the first child interval and thickEnd is the end of the last
\* child interval of the entity, as aggregated.
C17_ThickIsChildSpan ==
    child # "CDS" =>
        \A j \in DOMAIN rows :
            LET ex == wdata[rows[j].name].exons
            IN  /\ rows[j].thickStart = ex[1][1]
                /\ rows[j].thickEnd = ex[Len(ex)][1] + ex[Len(ex)][2]

\* a row whose child intervals begin after the entity start
C17_Witness ==
    /\ child # "CDS"
    /\ \E j \in DOMAIN rows :
          /\ rows[j].thickStart > rows[j].start
          /\ rows[j].thickEnd = rows[j].end

\* C18: with child "CDS" the thick region takes in the stop codon: on the
\* Forward strand thickEnd is the end of the last CDS interval plus 3 and
\* thickStart the start of the first one; on the Reverse strand thickStart
\* is the start of the first CDS interval minus 3 and thickEnd the end of
\* the last one.
C18_StopCodonShift ==
    child = "CDS" =>
        \A j \in DOMAIN rows :
            LET cds == ChildLinePairs(rows[j].name)
                first_start == cds[1][1]
                last_end == cds[Len(cds)][1] + cds[Len(cds)][2]
            IN  /\ rows[j].strand \in {"+", "-"}
                /\ rows[j].strand = "+" =>
                      /\ rows[j].thickStart = first_start
                      /\ rows[j].thickEnd = last_end + 3
                /\ rows[j].strand = "-" =>
                      /\ rows[j].thickStart = first_start - 3
                      /\ rows[j].thickEnd = last_end

\* a Forward row and, in another run, a Reverse row: here the Reverse one,
\* with the CDS 8..9 of a transcript 1..9
C18_Witness ==
    /\ child = "CDS"
    /\ \E j \in DOMAIN rows :
          /\ rows[j].strand = "-"
          /\ rows[j].thickStart = 4 /\ rows[j].thickEnd = 9
          /\ rows[j].start = 0 /\ rows[j].end = 9

\* C19 as stated: with child "CDS", an entity with a parent line and only
\* exon lines as supporting blocks is rendered, and its block list is
\* exactly the (start, end - start) of its exon lines.
C19_ExonOnlyRendered ==
    child = "CDS" =>
        \A k \in Visited :
            (/\ ParentLines(k) # {} /\ ExonLinePairs(k) # <<>>
             /\ ChildLinePairs(k) = <<>>)
                => \E j \in DOMAIN rows :
                      /\ rows[j].name = k
                      /\ BlocksAre(rows[j], ExonLinePairs(k))

\* C19 amended: with child "CDS", an entity without a CDS line is never
\* rendered; an entity with CDS lines and exon lines is rendered unless the
\* run fails at it, and the block list of every row is exactly the
\* (start, end - start) of the entity's exon lines.
C19_BlocksAreExonLines ==
    child = "CDS" =>
        /\ \A j \in DOMAIN rows :
              /\ ChildLinePairs(rows[j].name) # <<>>
              /\ BlocksAre(rows[j], ExonLinePairs(rows[j].name))
        /\ \A k \in Visited :
              (/\ ChildLinePairs(k) # <<>> /\ ExonLinePairs(k) # <<>>
               /\ (wStatus \in {"writing", "done"} \/ wlast # k))
                  => k \in RowNames

\* a row of an entity whose exon lines differ from its CDS lines
C19_Witness ==
    /\ child = "CDS"
    /\ \E j \in DOMAIN rows :
          /\ ParentLines(rows[j].name) # {}
          /\ ExonLinePairs(rows[j].name) # ChildLinePairs(rows[j].name)
          /\ rows[j].blockCount = Len(ExonLinePairs(rows[j].name))

----------------------------------------------------------------------------
(* detect_input_kind on file names, checked under SpecDetect *)

ExtWords ==
    {"gtf", "GTF", "gff", "gff3", "Gff3", "gz", "GZ", "gzip", "zst", "Zst",
     "zstd", "bz2", "bzip2", "txt", "bed", ""}

\* sample, sample.x, sample.x.y, ... and the hidden files .x, .x.y, ...
DetectPaths ==
    {<<first>> \o exts :
        first \in {"sample", ""},
        exts \in UNION {[1..n -> ExtWords] : n \in 0..MaxExts}}

InitDetect ==
    /\ FoldIdle
    /\ PoolIdle
    /\ AttrIdle
    /\ SepIdle
    /\ EntityIdle /\ MergeIdle /\ AggIdle /\ WriteIdle
    /\ pc = "start"
    /\ path \in DetectPaths \ {<<"">>}
    /\ chunkSize = 1 /\ stream = <<>>
    /\ kind = NoKind /\ poolOk = FALSE /\ inputRead = FALSE
    /\ chunkIn = <<>> /\ rendered = <<>> /\ outputs = <<>>
    /\ mergedOut = <<>> /\ wrote = <<>>
    /\ file = [created |-> FALSE, bytes |-> <<>>]
    /\ runErr = "none"

NextDetect == Detect

SpecDetect == InitDetect /\ [][NextDetect]_vars

GtfWords == {"gtf", "GTF"}
GffWords == {"gff", "gff3", "Gff3"}
GzipWords == {"gz", "GZ", "gzip"}
ZstdWords == {"zst", "Zst", "zstd"}
Bzip2Words == {"bz2", "bzip2"}

FormatOf(w) ==
    IF w \in GtfWords THEN "Gtf" ELSE IF w \in GffWords THEN "Gff" ELSE "-"

CompressionOf(w) ==
    IF w \in GzipWords THEN "Gzip" ELSE IF w \in ZstdWords THEN "Zstd"
    ELSE IF w \in Bzip2Words THEN "Bzip2" ELSE "-"

\* the extensions of a name: its components after the first, but a leading
\* dot begins the name of a hidden file, not an extension
Exts(p) == IF p[1] = "" THEN SubSeq(p, 3, Len(p)) ELSE Tail(p)

\* the classification the claim describes
Classified(p) ==
    LET x == Exts(p)
        n == Len(x)
    IN  IF n = 0 THEN NoKind
        ELSE IF FormatOf(x[n]) # "-"
        THEN [format |-> FormatOf(x[n]), compression |-> "None"]
        ELSE IF CompressionOf(x[n]) # "-" /\ n > 1 /\ FormatOf(x[n - 1]) # "-"
        THEN [format |-> FormatOf(x[n - 1]),
              compression |-> CompressionOf(x[n])]
        ELSE NoKind

\* C20: detect_input_kind classifies every file name: the format with no
\* compression when the last extension is gtf or gff/gff3 in any case, the
\* format with Gzip, Zstd or Bzip2 when the last extension names the
\* compression and the one before it the format, and UnsupportedExtension
\* in every other case.
C20_DetectTotal ==
    pc # "start" =>
        /\ kind = Classified(path)
        /\ kind = NoKind <=> (pc = "failed" /\ runErr = "UnsupportedExtension")
        /\ kind # NoKind <=> pc = "pool"

\* sample.Gff3.GZ was classified as gzipped GFF
C20_Witness ==
    /\ pc = "pool" /\ path = <<"sample", "Gff3", "GZ">>
    /\ kind = [format |-> "Gff", compression |-> "Gzip"]

----------------------------------------------------------------------------
(* The separator handed to to_bed: utils.rs convert and main.rs main, each *)
(* followed by its own to_bed.                                             *)

\* input names: plain and gzipped GTF and GFF, and two names that are neither
SepPaths ==
    {<<"sample", "gtf">>, <<"sample", "gff">>, <<"sample", "gff3">>,
     <<"sample", "gtf", "gz">>, <<"sample", "gff", "gz">>,
     <<"sample", "gff3", "gz">>, <<"sample", "gz">>, <<"sample", "txt">>}

\* the key/value separator the attribute column of the file is written with
Encoding(p) == IF DetectInputKind(p).format = "Gff" THEN "=" ELSE " "

\* the lines of a file: a comment, a transcript, two exons and an exon whose
\* attribute column lacks the target key
SepLineSet ==
    {NoRecordLine("comment")}
    \cup
    {[kind |-> "rec", feature |-> f[1], rs |-> f[2], re |-> f[3],
      strand |-> "+", key |-> f[4]] :
        f \in {<<"transcript", 1, 2, Key>>, <<"exon", 1, 1, Key>>,
               <<"exon", 2, 2, Key>>, <<"exon", 1, 1, NoKey>>}}

\* GxfRecord::parse::<SEP> on a line written with enc: extract_field! strips
\* the key and then the byte SEP, so with another separator no field matches
ParseSep(line, sep, enc) ==
    LET p == Parse(line)
    IN  IF p.res = "Ok" /\ sep # enc THEN [p EXCEPT !.rec.key = NoKey] ELSE p

RECURSIVE ToBedSep(_, _, _, _, _, _)
\* utils.rs to_bed with separator sep over the lines i, i + 1, ...
ToBedSep(m, ls, i, sep, enc, ch) ==
    IF i > Len(ls) THEN [state |-> "ok", map |-> m]
    ELSE IF ls[i].kind = "comment" \/ sep \notin {" ", "="}
    THEN ToBedSep(m, ls, i + 1, sep, enc, ch)
    ELSE LET p == ParseSep(ls[i], sep, enc)
         IN  IF p.res = "Err" THEN ToBedSep(m, ls, i + 1, sep, enc, ch)
             ELSE IF p.res = "panic"
             THEN [state |-> "panic", map |-> EmptyMap]
             ELSE ToBedSep(MapPut(m, p.rec.key,
                             ToBedUpdate(MapGet(m, p.rec.key, GenePredNew),
                                         p.rec, ch)),
                           ls, i + 1, sep, enc, ch)

RECURSIVE MainFold(_, _, _, _, _, _, _)
\* main.rs to_bed with separator sep: one split folded from lo to hi
MainFold(m, ls, lo, hi, sep, enc, ch) ==
    IF lo > hi THEN [state |-> "ok", map |-> m]
    ELSE IF ls[lo].kind = "comment" \/ sep \notin {" ", "="}
    THEN MainFold(m, ls, lo + 1, hi, sep, enc, ch)
    ELSE LET p == ParseSep(ls[lo], sep, enc)
         IN  IF p.res = "panic" THEN [state |-> "panic", map |-> EmptyMap]
             ELSE IF p.res = "Err" THEN [state |-> "err", map |-> EmptyMap]
             ELSE MainFold(FoldRecord(m, p.rec, ch), ls, lo + 1, hi,
                           sep, enc, ch)

RECURSIVE ReducePieces(_, _)
\* try_reduce_with over the folded pieces, left to right
ReducePieces(a, rest) ==
    IF rest = <<>> THEN a
    ELSE ReducePieces(Combine(a, Head(rest)), Tail(rest))

\* main.rs to_bed with separator sep, the lines cut after the positions in c
MainToBed(ls, c, sep, enc, ch) ==
    LET pieces == Splits(1, Len(ls), c)
        folded == [k \in DOMAIN pieces |->
                     LET r == MainFold(EmptyMap, ls, pieces[k].lo,
                                       pieces[k].hi, sep, enc, ch)
                     IN  [pieces[k] EXCEPT !.state = r.state, !.map = r.map]]
    IN  ReducePieces(Head(folded), Tail(folded))

\* utils.rs convert: the match on the extension; "panic" for the two panics
ConvertSepOf(p) ==
    LET ext == Extension(p)
        inner == Extension(FileStem(p))
    IN  IF ext = "gz"
        THEN IF inner = "" THEN "panic"
             ELSE IF inner \in {"gff", "gff3"} THEN "=" ELSE " "
        ELSE IF ext = "gtf" THEN " "
        ELSE IF ext \in {"gff", "gff3"} THEN "="
        ELSE "panic"

\* main.rs main: the match on the extension
MainSepOf(p) ==
    LET ext == Extension(p)
        inner == Extension(FileStem(p))
    IN  IF ext = "gz"
        THEN IF inner = "" THEN "panic"
             ELSE IF inner \in {"gff", "gff3"} THEN ";" ELSE " "
        ELSE IF ext = "gtf" THEN " "
        ELSE IF ext \in {"gff", "gff3"} THEN "="
        ELSE "panic"

InitSep ==
    /\ FoldIdle
    /\ PoolIdle
    /\ AttrIdle
    /\ EntityIdle /\ MergeIdle /\ WriteIdle
    /\ pc = "idle" /\ path \in SepPaths /\ chunkSize = 1 /\ stream = <<>>
    /\ kind = NoKind /\ poolOk = FALSE /\ inputRead = FALSE
    /\ chunkIn = <<>> /\ rendered = <<>> /\ outputs = <<>>
    /\ mergedOut = <<>> /\ wrote = <<>>
    /\ file = [created |-> FALSE, bytes |-> <<>>]
    /\ runErr = "none"
    /\ child = "exon"
    /\ lines \in UNION {[1..n -> SepLineSet] : n \in 1..MaxSepLines}
    /\ pos = 0 /\ acc = EmptyMap /\ seqStatus = "idle"
    /\ pmaps = <<>> /\ parStatus = "idle"
    /\ prog \in {"convert", "main"}
    /\ sStatus = "start" /\ sepBy = "-" /\ sOut = EmptyMap

\* convert: sep is chosen and the file is read
ConvertSep ==
    /\ prog = "convert" /\ sStatus = "start"
    /\ \E read \in BOOLEAN :
         IF ConvertSepOf(path) = "panic" \/ ~read
         THEN sStatus' = "panic" /\ UNCHANGED sepBy
         ELSE sStatus' = "chosen" /\ sepBy' = ConvertSepOf(path)
    /\ UNCHANGED <<prog, sOut>>
    /\ UNCHANGED <<entityVars, mergeVars, aggVars, runVars, writeVars,
                  attrVars, poolVars, foldVars>>

\* convert: to_bed(&contents, .., sep).expect(..)
ConvertParse ==
    /\ prog = "convert" /\ sStatus = "chosen"
    /\ LET r == ToBedSep(EmptyMap, lines, 1, sepBy, Encoding(path), child)
       IN  IF r.state = "ok"
           THEN sStatus' = "done" /\ sOut' = r.map
           ELSE sStatus' = "panic" /\ UNCHANGED sOut
    /\ UNCHANGED <<prog, sepBy>>
    /\ UNCHANGED <<entityVars, mergeVars, aggVars, runVars, writeVars,
                  attrVars, poolVars, foldVars>>

\* main: sep is chosen and the file is read
MainSep ==
    /\ prog = "main" /\ sStatus = "start"
    /\ \E read \in BOOLEAN :
         IF MainSepOf(path) = "panic" THEN sStatus' = "panic" /\ UNCHANGED sepBy
         ELSE IF ~read THEN sStatus' = "error" /\ UNCHANGED sepBy
         ELSE sStatus' = "chosen" /\ sepBy' = MainSepOf(path)
    /\ UNCHANGED <<prog, sOut>>
    /\ UNCHANGED <<entityVars, mergeVars, aggVars, runVars, writeVars,
                  attrVars, poolVars, foldVars>>

\* main: to_bed(&contents, .., sep)?, for whichever splits rayon makes
MainParse ==
    /\ prog = "main" /\ sStatus = "chosen"
    /\ \E c \in SUBSET (1..(Len(lines) - 1)) :
         LET r == MainToBed(lines, c, sepBy, Encoding(path), child)
         IN  IF r.state = "ok"
             THEN sStatus' = "done" /\ sOut' = r.map
             ELSE /\ sStatus' = IF r.state = "err" THEN "error" ELSE "panic"
                  /\ UNCHANGED sOut
    /\ UNCHANGED <<prog, sepBy>>
    /\ UNCHANGED <<entityVars, mergeVars, aggVars, runVars, writeVars,
                  attrVars, poolVars, foldVars>>

NextSep == ConvertSep \/ ConvertParse \/ MainSep \/ MainParse

SpecSep == InitSep /\ [][NextSep]_vars

\* the maps the program returns for the same lines under the name p
ResultsFor(p) ==
    IF prog = "convert"
    THEN {ToBedSep(EmptyMap, lines, 1, ConvertSepOf(p), Encoding(p),
                   child).map}
    ELSE {MainToBed(lines, c, MainSepOf(p), Encoding(p), child).map :
             c \in SUBSET (1..(Len(lines) - 1))}

\* C21: the separator depends on the detected format only: it is "=" for
\* .gff, .gff3, .gff.gz and .gff3.gz and " " for .gtf and .gtf.gz, and a
\* gzipped file yields the entities of the same file uncompressed.
C21_SeparatorByFormat ==
    (sStatus \in {"chosen", "done"} /\ DetectInputKind(path) # NoKind) =>
        /\ sepBy = IF DetectInputKind(path).format = "Gff" THEN "=" ELSE " "
        /\ (sStatus = "done" /\ Extension(path) = "gz")
              => sOut \in ResultsFor(FileStem(path))

----------------------------------------------------------------------------
(* gxf/attr.rs: Attribute::parse. A string is the sequence of its          *)
(* characters.                                                             *)

Quote == "\""

RECURSIVE TrimEnd(_)
\* str::trim_end
TrimEnd(s) ==
    IF s # <<>> /\ s[Len(s)] = " " THEN TrimEnd(SubSeq(s, 1, Len(s) - 1))
    ELSE s

RECURSIVE SplitBy(_, _)
\* slice::split(|b| *b == by)
SplitBy(s, by) ==
    LET at == {i \in DOMAIN s : s[i] = by}
        i == CHOOSE x \in at : \A y \in at : x <= y
    IN  IF at = {} THEN <<s>>
        ELSE <<SubSeq(s, 1, i - 1)>> \o SplitBy(SubSeq(s, i + 1, Len(s)), by)

RECURSIVE TrimLeading(_, _)
\* the while loop of split_and_trim_bytes
TrimLeading(b, trim) ==
    IF b # <<>> /\ b[1] = trim THEN TrimLeading(Tail(b), trim) ELSE b

\* split_and_trim_bytes::<b';', b' '>
SplitAndTrimBytes(bytes) ==
    LET parts0 == SplitBy(bytes, ";")
    IN  [i \in DOMAIN parts0 |-> TrimLeading(parts0[i], " ")]

\* slice::strip_prefix
StripPrefix(s, pre) ==
    IF Len(pre) <= Len(s) /\ SubSeq(s, 1, Len(pre)) = pre
    THEN [some |-> TRUE, rest |-> SubSeq(s, Len(pre) + 1, Len(s))]
    ELSE [some |-> FALSE, rest |-> <<>>]

RECURSIVE TrimMatches(_, _)
\* str::trim_matches(|c| c == '"')
TrimMatches(s, c) ==
    IF s # <<>> /\ s[1] = c THEN TrimMatches(Tail(s), c)
    ELSE IF s # <<>> /\ s[Len(s)] = c
    THEN TrimMatches(SubSeq(s, 1, Len(s) - 1), c)
    ELSE s

ExtractFieldAnyPrefix(field, sep, name, out) ==
    LET without_key == StripPrefix(field, name)
    IN  IF without_key.some
        THEN [some |-> TRUE,
              v |-> TrimMatches(TrimLeading(without_key.rest, sep), Quote)]
        ELSE out

\* extract_field!: the output is overwritten when the field has the key and
\* then the separator
ExtractField(field, sep, name, out) ==
    LET without_key == StripPrefix(field, name)
        without_eq == StripPrefix(without_key.rest, <<sep>>)
    IN  IF without_key.some /\ without_eq.some
        THEN [some |-> TRUE, v |-> TrimMatches(without_eq.rest, Quote)]
        ELSE out

RECURSIVE ExtractAll(_, _, _, _)
\* the for loop of Attribute::parse
ExtractAll(fields, sep, name, feat) ==
    IF fields = <<>> THEN feat
    ELSE ExtractAll(Tail(fields), sep, name,
                    ExtractField(Head(fields), sep, name, feat))

\* Attribute::parse::<SEP>(line, feature)
AttributeParse(line, sep, feature) ==
    IF line # <<>>
    THEN LET feat == ExtractAll(SplitAndTrimBytes(TrimEnd(line)), sep,
                                feature, [some |-> FALSE, v |-> <<>>])
         IN  [res |-> "Ok", feature |-> IF feat.some THEN feat.v ELSE <<>>]
    ELSE [res |-> "Err", feature |-> <<>>]

\* keys, one of them beginning with another
AttrKeys == {<<"a">>, <<"a", "b">>, <<"c">>}

AttrValues == {<<>>, <<"x">>, <<"y", " ", "z">>}

\* an empty value is written as "", never as nothing
AttrFields ==
    {f \in [key : AttrKeys, value : AttrValues, quoted : BOOLEAN] :
        f.quoted \/ f.value # <<>>}

\* a field written as key "value" (enc = " ") or key=value (enc = "=")
FormatField(f, enc) ==
    f.key \o <<enc>>
    \o (IF f.quoted THEN <<Quote>> \o f.value \o <<Quote>> ELSE f.value)

RECURSIVE FormatColumn(_, _, _, _)
\* the fields joined by ";" and gap spaces, with a last ";" or not
FormatColumn(fs, enc, gap, last) ==
    IF fs = <<>> THEN <<>>
    ELSE IF Len(fs) = 1
    THEN FormatField(fs[1], enc) \o (IF last THEN <<";">> ELSE <<>>)
    ELSE FormatField(fs[1], enc) \o <<";">> \o [i \in 1..gap |-> " "]
         \o FormatColumn(Tail(fs), enc, gap, last)

InitAttr ==
    /\ FoldIdle
    /\ PoolIdle
    /\ EntityIdle /\ MergeIdle /\ AggIdle /\ RunIdle /\ WriteIdle /\ SepIdle
    /\ aFields \in UNION {[1..n -> AttrFields] : n \in 0..MaxFields}
    /\ aSep \in {" ", "="}
    /\ \E gap \in 0..1, last \in BOOLEAN, pad \in 0..1 :
         aLine = FormatColumn(aFields, aSep, gap, last) \o [i \in 1..pad |-> " "]
    /\ aKey \in {<<"a">>, <<"a", "b">>}
    /\ aStatus = "start" /\ aOut = <<>>

\* Attribute::parse::<SEP>(line, feature)
AttrParse ==
    /\ aStatus = "start"
    /\ LET r == AttributeParse(aLine, aSep, aKey)
       IN  aStatus' = r.res /\ aOut' = r.feature
    /\ UNCHANGED <<aFields, aLine, aKey, aSep>>
    /\ UNCHANGED <<entityVars, mergeVars, aggVars, runVars, writeVars,
                   sepVars, poolVars, foldVars>>

NextAttr == AttrParse

SpecAttr == InitAttr /\ [][NextAttr]_vars

\* the positions of the fields whose key is exactly the target key
WithKey == {i \in DOMAIN aFields : aFields[i].key = aKey}

\* C22: for a non-empty column of fields written as key "value"; or
\* key=value; Attribute::parse returns the value of the field whose key is
\* exactly the target key (of the last one, if there are several), without
\* its quotes, and the empty value when no field has that key; a field whose
\* key begins with the target key is not matched.
C22_AttributeValue ==
    (aStatus # "start" /\ aLine # <<>>) =>
        /\ aStatus = "Ok"
        /\ WithKey = {} => aOut = <<>>
        /\ \A i \in WithKey :
              (\A j \in WithKey : j <= i) => aOut = aFields[i].value

\* the column ab "x"; a "y z" was parsed for the key a
C22_Witness ==
    /\ aStatus = "Ok" /\ aKey = <<"a">> /\ aSep = " "
    /\ Len(aFields) = 2
    /\ aFields[1].key = <<"a", "b">> /\ aFields[1].value = <<"x">>
    /\ aFields[2].key = <<"a">> /\ aFields[2].quoted
    /\ aOut = <<"y", " ", "z">>

----------------------------------------------------------------------------
(* convert.rs with the workers of the pool made explicit: a worker takes a *)
(* chunk when one of the config.threads workers is free, and hands back    *)
(* its result when render_chunk returns.                                   *)

PoolStreams == UNION {[1..n -> ReaderOutcomes] : n \in 0..MaxPoolRecords}

PoolPaths == {<<"sample", "gtf">>, <<"sample", "txt">>}

PoolChunkSizes == {1, 2}

InitPool ==
    /\ FoldIdle
    /\ EntityIdle /\ MergeIdle /\ AggIdle /\ WriteIdle /\ SepIdle /\ AttrIdle
    /\ pc = "start"
    /\ path \in PoolPaths
    /\ chunkSize \in PoolChunkSizes
    /\ stream \in PoolStreams
    /\ kind = NoKind /\ poolOk = FALSE /\ inputRead = FALSE
    /\ chunkIn = <<>> /\ rendered = <<>> /\ outputs = <<>>
    /\ mergedOut = <<>> /\ wrote = <<>>
    /\ file = [created |-> FALSE, bytes |-> <<>>]
    /\ runErr = "none"
    /\ threads \in 1..MaxThreads
    /\ busy = {}

FreeWorkerButOne == Cardinality(busy) < threads - 1

\* one of the num_threads(config.threads) workers has nothing to do
FreeWorker == Cardinality(busy) < threads

\* a free worker takes the chunk at position i
RenderStartOf(i) ==
    /\ pc = "render"
    /\ rendered[i] = "pending" /\ i \notin busy
    /\ FreeWorker
    /\ busy' = busy \cup {i}
    /\ UNCHANGED threads
    /\ UNCHANGED <<entityVars, mergeVars, aggVars, runVars, writeVars,
                   sepVars, attrVars, foldVars>>

RenderStart == \E i \in DOMAIN rendered : RenderStartOf(i)

\* render_chunk(idx, chunk, ..) returns in the worker that took chunk i
RenderFinishOf(i) ==
    /\ pc = "render"
    /\ i \in busy
    /\ LET res == RenderChunk(i - 1, chunkIn[i])
       IN  /\ rendered' = [rendered EXCEPT
                              ![i] = IF res.ok THEN "ok" ELSE "err"]
           /\ outputs' = Append(outputs, res)
    /\ busy' = busy \ {i}
    /\ UNCHANGED threads
    /\ UNCHANGED <<pc, path, chunkSize, stream, kind, poolOk, inputRead,
                   chunkIn, mergedOut, wrote, file, runErr>>
    /\ UNCHANGED <<entityVars, mergeVars, aggVars, writeVars, sepVars,
                   attrVars, foldVars>>

RenderFinish == \E i \in busy : RenderFinishOf(i)

NextPool ==
    \/ Detect \/ BuildPool \/ OpenReader \/ RenderStart \/ RenderFinish
    \/ Collect \/ CreateOutput \/ WriteNext

\* the main thread and every worker of the pool keep running
SpecPool == InitPool /\ [][NextPool]_vars /\ WF_vars(NextPool)

\* all chunks rendered and the output written
RunDone ==
    /\ pc = "done"
    /\ \A i \in DOMAIN rendered : rendered[i] = "ok"
    /\ file.created /\ file.bytes = SequentialOutput(chunkIn, 1)

\* failed with one error, nothing in the output file
RunFailedNoOutput ==
    pc = "failed" /\ runErr # "none" /\ file.bytes = <<>>

\* failed with one error; the output file was touched, if at all, by
\* write_output
RunFailed ==
    /\ pc = "failed" /\ runErr # "none"
    /\ (file.created \/ file.bytes # <<>>) =>
          /\ runErr = "Io"
          /\ \A i \in DOMAIN rendered : rendered[i] = "ok"

\* no worker waits on another worker: whatever the other workers do, a
\* worker that holds a chunk can return
NoWorkerWaits == \A i \in DOMAIN rendered : i \in busy => ENABLED RenderFinishOf(i)

\* C23 as stated: with fair scheduling every run reaches 'all chunks
\* rendered and output written' or 'failed with one error and no results
\* surfaced', and no worker waits on another worker.
C23_RunTerminatesClean ==
    /\ <>(RunDone \/ RunFailedNoOutput)
    /\ []NoWorkerWaits

\* C23 amended: with fair scheduling every run reaches 'all chunks rendered
\* and output written' or 'failed with one error'; a run that failed before
\* write_output has no output file, a run that failed inside write_output
\* may leave the chunks written so far; no worker waits on another worker.
C23_RunTerminates ==
    /\ <>[](RunDone \/ RunFailed)
    /\ []NoWorkerWaits

\* the run ended after two workers held chunks at the same time
C23_Witness ==
    /\ pc = "done" /\ threads = 2 /\ Len(rendered) >= 2
    /\ outputs[1].idx > outputs[2].idx

----------------------------------------------------------------------------
(* The two ways an entity of one key is put together: the per-record       *)
(* update of to_bed, and GenePred::merge over one-record partials.         *)

\* the GenePred to_bed builds from the single record r: Parent for a parent
\* record, Child for a child record
OneRecordPartial(r, ch) == ToBedUpdate(GenePredNew, r, ch)

InitFold ==
    /\ EntityIdle /\ MergeIdle /\ RunIdle /\ WriteIdle /\ SepIdle /\ AttrIdle
    /\ PoolIdle
    /\ child \in ChildFeatures
    /\ lines = <<>> /\ pos = 0 /\ acc = EmptyMap /\ seqStatus = "idle"
    /\ pmaps = <<>> /\ parStatus = "idle"
    /\ fRecs = <<>> /\ fFold = GenePredNew /\ fMerge = GenePredNew

\* the next record of the key reaches both: the closure of to_bed updates
\* the entry, and merge absorbs the record's partial
FoldAndMerge ==
    /\ Len(fRecs) < MaxOps
    /\ \E r \in ValidRecords :
         /\ fRecs' = Append(fRecs, r)
         /\ fFold' = ToBedUpdate(fFold, r, child)
         /\ fMerge' = Merge(fMerge, OneRecordPartial(r, child))
    /\ UNCHANGED <<entityVars, mergeVars, aggVars, runVars, writeVars,
                   sepVars, attrVars, poolVars>>

NextFold == FoldAndMerge

SpecFold == InitFold /\ [][NextFold]_vars

\* C24: for every sequence of records of one key, the entity built by the
\* per-record update of to_bed equals the entity obtained by merging the
\* one-record partials of the records in the same order.
C24_FoldEqualsMerge == fFold = fMerge

----------------------------------------------------------------------------
(* Claims about the blocks of a row, checked under SpecWrite *)

\* the numbers 0 .. WrapAt whose decimal string is tok
NumberOf(tok) == {n \in 0..WrapAt : ToString(n) = tok}

\* the i-th number of a comma-joined list
Item(list, i) == list[2 * i - 1]

\* the first block of the row begins at the start of the row and its last
\* block ends at the end of the row
SnappedToBounds(row) ==
    /\ Item(row.blockStarts, 1) = "0"
    /\ \E a \in NumberOf(Item(row.blockStarts, row.blockCount)),
          b \in NumberOf(Item(row.blockSizes, row.blockCount)) :
          row.start + a + b = row.end

\* C25 as stated: with child "CDS" the first block of every row starts at
\* the entity start and the last block ends at the entity end.
C25_CdsBlocksSnapped ==
    child = "CDS" => \A j \in DOMAIN rows : SnappedToBounds(rows[j])

\* C25 amended: with child "CDS" the blocks of a row are the exon lines of
\* the entity as they are, not snapped: the first block starts at the entity
\* start and the last one ends at the entity end only when the exon lines
\* themselves do.
C25_CdsBlocksNotSnapped ==
    child = "CDS" =>
        \A j \in DOMAIN rows :
            LET ex == ExonLinePairs(rows[j].name)
            IN  /\ BlocksAre(rows[j], ex)
                /\ SnappedToBounds(rows[j]) <=>
                      /\ ex[1][1] = rows[j].start
                      /\ ex[Len(ex)][1] + ex[Len(ex)][2] = rows[j].end

\* with child "CDS", a row of a transcript 1..9 whose only exon is 8..9
C25_Witness ==
    /\ child = "CDS"
    /\ \E j \in DOMAIN rows :
          /\ rows[j].start = 0 /\ rows[j].end = 9
          /\ rows[j].blockCount = 1
          /\ rows[j].blockStarts = <<"7", ",">>
          /\ rows[j].blockSizes = <<"2", ",">>

\* C26: with a child feature other than "CDS" the blockCount of a row is
\* the number of distinct (start, size) child intervals of the entity; an
\* entity with one child interval has one block.
C26_BlockCountIsChildCount ==
    child # "CDS" =>
        \A j \in DOMAIN rows :
            rows[j].blockCount = Len(ChildLinePairs(rows[j].name))

\* the blocks of a row as <<start, size>> pairs, starts relative to the row
RowBlocks(row) ==
    [i \in 1..row.blockCount |->
        <<CHOOSE n \in 0..WrapAt : ToString(n) = Item(row.blockStarts, i),
          CHOOSE n \in 0..WrapAt : ToString(n) = Item(row.blockSizes, i)>>]

\* C27: every row is a well-formed BED12 interval: start <= thickStart <
\* thickEnd <= end, every block lies within the row (0 <= blockStart and
\* blockStart + blockSize <= end - start), and no two blocks overlap.
C27_WellFormedBed12 ==
    \A j \in DOMAIN rows :
        LET row == rows[j]
            b == RowBlocks(row)
        IN  /\ row.start <= row.thickStart
            /\ row.thickStart < row.thickEnd
            /\ row.thickEnd <= row.end
            /\ \A i \in DOMAIN b : b[i][1] + b[i][2] <= row.end - row.start
            /\ \A i \in DOMAIN b : \A k \in DOMAIN b :
                  i < k => b[i][1] + b[i][2] <= b[k][1]

----------------------------------------------------------------------------
(* u64 subtraction in GxfRecord::parse and to_bed. The build either has    *)
(* overflow checks (a subtraction below 0 panics) or has none (it wraps    *)
(* modulo 2^64, here modulo WrapAt).                                       *)

\* a - b on u64
SubU64(a, b, checks) ==
    IF a >= b THEN [ok |-> TRUE, v |-> a - b]
    ELSE IF checks THEN [ok |-> FALSE, v |-> 0]
    ELSE [ok |-> TRUE, v |-> a - b + WrapAt]

\* raw spans: a start of 0, a proper span, an end left of the start
WrapSpans == {<<0, 1>>, <<1, 2>>, <<3, 1>>}

WrapLineSet ==
    {[kind |-> "rec", feature |-> f, rs |-> sp[1], re |-> sp[2],
      strand |-> "+", key |-> Key] : f \in Features, sp \in WrapSpans}

\* GxfRecord::parse: start.parse::<u64>().unwrap() - 1
ParseU64(line, checks) ==
    LET s == SubU64(line.rs, 1, checks)
    IN  IF line.kind # "rec" THEN Parse(line)
        ELSE IF ~s.ok THEN [res |-> "panic", rec |-> NoRecord]
        ELSE [res |-> "Ok", rec |-> [Parse(line).rec EXCEPT !.start = s.v]]

\* the closure of to_bed: record.end - record.start is computed for an exon
\* record under child "CDS" and for a child record
ToBedUpdateU64(e, r, ch, checks) ==
    LET size == SubU64(r.end, r.start, checks)
        e1 == ToBedParent(e, r)
        e2 == IF ch = "CDS" /\ r.feature = "exon"
              THEN [e1 EXCEPT !.blocks =
                       SomeBlocks(BTreeInsert(@.set, <<r.start, size.v>>))]
              ELSE e1
        e3 == IF r.feature = ch
              THEN [e2 EXCEPT !.exons = BTreeInsert(@, <<r.start, size.v>>),
                              !.record_type =
                                  IF @ # "Parent" THEN "Child" ELSE @]
              ELSE e2
    IN  IF ((ch = "CDS" /\ r.feature = "exon") \/ r.feature = ch) /\ ~size.ok
        THEN [ok |-> FALSE, e |-> e]
        ELSE [ok |-> TRUE, e |-> e3]

RECURSIVE ToBedAllU64(_, _, _, _, _)
\* utils.rs to_bed over the lines i, i + 1, ...: the map, or a panic
ToBedAllU64(m, ls, i, ch, checks) ==
    IF i > Len(ls) THEN [state |-> "ok", map |-> m]
    ELSE LET p == ParseU64(ls[i], checks)
             u == ToBedUpdateU64(MapGet(m, p.rec.key, GenePredNew), p.rec,
                                 ch, checks)
         IN  IF ls[i].kind = "comment" \/ p.res = "Err"
             THEN ToBedAllU64(m, ls, i + 1, ch, checks)
             ELSE IF p.res = "panic" \/ ~u.ok
             THEN [state |-> "panic", map |-> EmptyMap]
             ELSE ToBedAllU64(MapPut(m, p.rec.key, u.e), ls, i + 1, ch,
                              checks)

InitWrap ==
    /\ EntityIdle /\ MergeIdle /\ RunIdle /\ SepIdle /\ AttrIdle /\ PoolIdle
    /\ FoldIdle
    /\ child \in ChildFeatures
    /\ lines \in UNION {[1..n -> WrapLineSet] : n \in 1..MaxWriteLines}
    /\ pos = 0 /\ acc = EmptyMap /\ seqStatus = "idle"
    /\ pmaps = <<>> /\ parStatus = "idle"
    /\ wStatus = "start" /\ wdata = EmptyMap /\ wleft = {} /\ wlast = NoName
    /\ rows = <<>> /\ skips = 0

\* convert: to_bed(&contents, ..).expect(..), in a build with or without
\* overflow checks
ConvertToBedU64 ==
    /\ wStatus = "start"
    /\ \E checks \in BOOLEAN :
         LET r == ToBedAllU64(EmptyMap, lines, 1, child, checks)
         IN  IF r.state = "ok"
             THEN wdata' = r.map /\ wStatus' = "parsed"
             ELSE wStatus' = "panic" /\ UNCHANGED wdata
    /\ UNCHANGED <<wleft, wlast, rows, skips>>
    /\ UNCHANGED <<entityVars, mergeVars, aggVars, runVars, sepVars,
                   attrVars, poolVars, foldVars>>

NextWrap == ConvertToBedU64

SpecWrap == InitWrap /\ [][NextWrap]_vars

\* every coordinate of the input is far below WrapAt / 2; a number at or
\* above it can only come from a wrapped subtraction
IsWrapped(v) == 2 * v >= WrapAt

\* C28: no unsigned subtraction wraps around: raw_start - 1, end - start
\* and cds_start - 3 give the mathematical result or stop the run; no
\* wrapped value is stored in an entity or written to a row.
C28_NoWraparound ==
    /\ \A k \in DOMAIN wdata :
         /\ ~IsWrapped(wdata[k].start)
         /\ \A i \in DOMAIN wdata[k].exons :
               ~IsWrapped(wdata[k].exons[i][1])
               /\ ~IsWrapped(wdata[k].exons[i][2])
         /\ \A i \in DOMAIN wdata[k].blocks.set :
               ~IsWrapped(wdata[k].blocks.set[i][1])
               /\ ~IsWrapped(wdata[k].blocks.set[i][2])
    /\ \A j \in DOMAIN rows :
         ~IsWrapped(rows[j].start) /\ ~IsWrapped(rows[j].thickStart)

----------------------------------------------------------------------------
(* SpecBlocks: partial GenePreds of one key that carry blocks are reduced  *)
(* into the first of them.                                                 *)

BlockSets == {NoBlocks, SomeBlocks(<< <<0, 1>> >>), SomeBlocks(<< <<1, 1>> >>)}

\* partials as to_bed leaves them under child "CDS": with or without blocks
BlockPartials ==
    {[MkPartial(rt, "chr1", <<1, 2>>, "Forward",
                IF rt = "Child" THEN << <<1, 1>> >> ELSE <<>>)
         EXCEPT !.blocks = b] : rt \in RecordTypes, b \in BlockSets}

InitBlocks ==
    /\ AggIdle /\ RunIdle /\ WriteIdle /\ SepIdle /\ AttrIdle /\ PoolIdle
    /\ FoldIdle
    /\ parts \in UNION {[1..n -> BlockPartials] : n \in 2..(MaxParts + 1)}
    /\ entry = parts[1]
    /\ pend = Tail(parts)
    /\ prevType = "Unknown" /\ lastOp = "none" /\ nOps = 0
    /\ prev = GenePredNew /\ query = NoQuery /\ parentVals = NoVals

SpecBlocks == InitBlocks /\ [][NextMerge]_vars

\* C30: merge leaves self.blocks unchanged for every record type of the
\* query: the blocks of the query are never combined into self, and after
\* the partials were reduced the blocks of the entity are those of the first
\* partial only.
C30_MergeKeepsSelfBlocks ==
    /\ nOps > 0 => entry.blocks = prev.blocks
    /\ entry.blocks = parts[1].blocks
    /\ \A i \in DOMAIN pend : \E j \in DOMAIN parts :
          pend[i].blocks = parts[j].blocks

\* every partial was merged, the last of them a query whose blocks differ
\* from those of the first partial, and the entity has the first partial's
C30_Witness ==
    /\ pend = <<>> /\ Len(parts) = MaxParts + 1 /\ nOps > 0
    /\ query.blocks.some /\ parts[1].blocks.some
    /\ query.blocks # parts[1].blocks
    /\ entry.blocks = parts[1].blocks

====
